---- MODULE Spec2Model ----
(***************************************************************************)
(* Dialog orchestration core of fincred: the provider fallback chain       *)
(* (app/llm/providers/fallback.py) and the conversation service            *)
(* (app/services/dialog/conversation.py).                                  *)
(*                                                                         *)
(* SpecChain : one call of FallbackChain.generate or FallbackChain.stream  *)
(*             over a chain of providers whose every call may succeed,     *)
(*             be rate limited or fail.                                    *)
(* SpecConv  : the ConversationService session store with concurrent       *)
(*             send_message / stream_message turns; every await of the     *)
(*             provider chain is a suspension point.                       *)
(***************************************************************************)
EXTENDS Integers, Sequences, FiniteSets, TLC

\* ------------------------------------------------------------------------
\* Bounds
\* ------------------------------------------------------------------------
MaxProviders == 3
MaxRetries == 2
MaxTokens == 2
MaxSessions == 2
MaxTurns == 2
MaxFragments == 1
MaxStreamFragments == 2
MaxTimeout == 3
MaxWait == 4
MaxChunks == 2
MaxClock == 2
MaxDataVersion == 1
MaxAgeHours == 1

\* ------------------------------------------------------------------------
\* State of one FallbackChain call
\* ------------------------------------------------------------------------
VARIABLES
    max_fragments, \* the most fragments the chain streams to the service in one call
    providers,     \* len(self._providers)
    available,     \* provider index -> what its is_available() reports
    max_retries,   \* self._max_retries
    method,        \* "generate" or "stream": the call being run
    pc,            \* position of the call
    i,             \* loop variable of "for i, provider in enumerate(...)", 1-based
    attempt,       \* loop variable of "for attempt in range(max_retries + 1)"
    errors,        \* the local list errors: <<provider, reason>> pairs
    calls,         \* provider index -> number of generate()/stream() invocations
    sleeps,        \* provider index -> number of asyncio.sleep(retry_delay) after it failed
    outcomes,      \* provider index -> outcomes of its invocations, in order
    result,        \* provider whose response generate returned (0: none)
    tok,           \* fragments the current provider's stream has yielded
    forwarded      \* fragments stream has yielded to its caller, in order

\* ------------------------------------------------------------------------
\* State of the ConversationService
\* ------------------------------------------------------------------------
VARIABLES
    stored,        \* keys of ConversationService._sessions
    heap,          \* session id -> the ConversationSession object with that id
    next_id,       \* number of ids uuid4() has handed out
    turns,         \* the send_message / stream_message calls, by order of start
    llm_calls,     \* number of self.llm.generate / self.llm.stream invocations
    cleared,       \* ids clear_session has deleted
    now,           \* datetime.utcnow(), in hours
    db,            \* version of the users' financial records in storage
    ret            \* what the last call of a store operation returned

convVars == <<stored, heap, next_id, turns, llm_calls, cleared, now, db, ret>>

\* one call of GeminiProvider.generate or GeminiProvider.stream
VARIABLES
    request,       \* "generate" or "stream": the provider method called
    timeout,       \* self._timeout, in seconds
    gemini_pc,     \* position of the call
    elapsed,       \* seconds the call has waited for the backend in its current await
    chunks,        \* number of chunks stream has yielded
    raised         \* the exception the call raised

provVars == <<request, timeout, gemini_pc, elapsed, chunks, raised>>

callVars == <<max_fragments, providers, available, max_retries, method, pc, i, attempt,
              errors, calls, sleeps, outcomes, result, tok, forwarded>>

\* one call of a function of the dialog library (IntentDetector.detect,
\* PromptTemplate.render, PromptManager, ContextBuilder.build)
VARIABLES
    call,          \* the call: its name and its arguments
    answer,        \* what the call returned or raised
    templates      \* PromptManager._templates: template name -> template

libVars == <<call, answer, templates>>

chainVars == <<libVars, provVars, callVars>>

vars == <<chainVars, convVars>>

Chain == 1..providers

NotAvailable == "Provider not available"
RateLimited == "Rate limited"
Failed == "error"
Filtered == "Response was blocked by Gemini safety filters"

Bump(f, k) == [f EXCEPT ![k] = @ + 1]
Log(f, k, o) == [f EXCEPT ![k] = Append(@, o)]

\* ------------------------------------------------------------------------
\* Texts. A text is a sequence of tokens; a token is a blank or a phrase.
\* ------------------------------------------------------------------------

\* str.lower() on a token
Lower(w) ==
    CASE w = "Hello" -> "hello"
      [] w = "You should" -> "you should"
      [] w = "Goals" -> "goals"
      [] w = "My Goals" -> "my goals"
      [] OTHER -> w

\* str.lower()
lower(text) == [k \in DOMAIN text |-> Lower(text[k])]

RECURSIVE lstrip(_)
lstrip(text) ==
    IF text # <<>> /\ Head(text) = " " THEN lstrip(Tail(text)) ELSE text

RECURSIVE rstrip(_)
rstrip(text) ==
    IF text # <<>> /\ text[Len(text)] = " "
        THEN rstrip(SubSeq(text, 1, Len(text) - 1))
        ELSE text

\* Variant: nothing is stripped.
strip_Identity(text) == text

\* str.strip()
strip(text) == rstrip(lstrip(text))

\* the pairs <<phrase, token>> of the phrases and tokens in use where the
\* phrase is a proper substring of the token
Substrings ==
    { <<"goal", "goals">>, <<"goal", "my goals">>, <<"goals", "my goals">>,
      <<"hi", "this">>, <<"goal", "new goal">>, <<"goal", "add goal">>,
      <<"goal", "set goal">>, <<"goal", "create goal">> }

\* "phrase in text": the phrase is a substring of the text
Contains(text, phrase) ==
    \E k \in DOMAIN text : text[k] = phrase \/ <<phrase, text[k]>> \in Substrings

\* the messages a caller sends
UserMessages == { <<>>, <<" ">>, <<"Hello">>, <<" ", "goal">> }

\* the replies a provider chain gives, and the fragments it streams
Replies == { <<"sure">>, <<"You should", "save">> }
Fragments == { "sure", "You should" }

\* ------------------------------------------------------------------------
\* IntentDetector
\* ------------------------------------------------------------------------
PATTERNS == <<
    [intent |-> "greeting", patterns |-> <<"hello", "hi", "hey", "good morning",
        "good afternoon", "good evening", "howdy", "what's up", "sup">>],
    [intent |-> "goodbye", patterns |-> <<"bye", "goodbye", "see you", "later",
        "thanks", "thank you", "that's all", "done", "exit", "quit">>],
    [intent |-> "help", patterns |-> <<"help", "how do i", "how can i",
        "what can you do", "confused", "don't understand", "explain">>],
    [intent |-> "goal_discovery", patterns |-> <<"goal", "goals", "want to save",
        "want to pay", "trying to", "my target", "achieve", "planning to",
        "financial goal", "set a goal">>],
    [intent |-> "goal_create", patterns |-> <<"create goal", "new goal",
        "add goal", "set goal", "start saving", "start paying">>],
    [intent |-> "goal_status", patterns |-> <<"my goals", "goal progress",
        "how am i doing", "on track", "goal status", "check goal">>],
    [intent |-> "plan_explanation", patterns |-> <<"my plan", "explain plan",
        "show plan", "what's my plan", "how much should i", "recommendation",
        "suggest">>],
    [intent |-> "plan_whatif", patterns |-> <<"what if", "if i", "what happens",
        "scenario", "could i", "would it work", "alternative">>],
    [intent |-> "checkin", patterns |-> <<"check in", "checkin", "weekly check",
        "how was my week", "update progress", "weekly update">>],
    [intent |-> "progress_update", patterns |-> <<"made a payment", "transferred",
        "saved", "paid off", "update balance", "progress update">>],
    [intent |-> "education", patterns |-> <<"what is", "explain", "teach me",
        "learn about", "how does", "difference between", "meaning of">>],
    [intent |-> "action_setup", patterns |-> <<"set up transfer", "automate",
        "automatic", "schedule", "recurring", "remind me">>],
    [intent |-> "onboarding", patterns |-> <<"just started", "new here",
        "getting started", "first time", "how to start", "begin">>],
    [intent |-> "profile_setup", patterns |-> <<"my income", "my expenses",
        "i make", "i spend", "my salary", "update profile">>]
>>

\* sum(1 for p in patterns if p in message_lower)
match_count(patterns, message_lower) ==
    Cardinality({k \in DOMAIN patterns : Contains(message_lower, patterns[k])})

\* the variant without the cap at 1.0
confidence_Uncapped(patterns, message_lower) ==
    <<2 * match_count(patterns, message_lower), Len(patterns)>>

\* min(match_count / len(patterns) * 2, 1.0) as a fraction <<num, den>>
confidence(patterns, message_lower) ==
    LET mc == match_count(patterns, message_lower)
    IN  IF 2 * mc >= Len(patterns) THEN <<1, 1>> ELSE <<2 * mc, Len(patterns)>>

FracLess(a, b) == a[1] * b[2] < b[1] * a[2]

\* IntentDetector.detect: the first intent, in table order, of highest score
detect(message) ==
    LET message_lower == strip(lower(message))
        scored == {k \in DOMAIN PATTERNS :
                      match_count(PATTERNS[k].patterns, message_lower) > 0}
        conf(k) == confidence(PATTERNS[k].patterns, message_lower)
        best == CHOOSE k \in scored :
                    \A j \in scored :
                        /\ ~FracLess(conf(k), conf(j))
                        /\ (~FracLess(conf(j), conf(k)) => k <= j)
    IN  IF scored # {}
            THEN [intent |-> PATTERNS[best].intent, confidence |-> conf(best)]
            ELSE [intent |-> "general", confidence |-> <<1, 2>>]

\* IntentDetector.get_intent_for_prompt
get_intent_for_prompt(intent) ==
    CASE intent \in {"onboarding", "profile_setup"} -> "onboarding"
      [] intent \in {"goal_discovery", "goal_create", "goal_update"} -> "goal_discovery"
      [] intent \in {"plan_explanation", "plan_whatif"} -> "plan_explanation"
      [] intent \in {"checkin", "progress_update"} -> "checkin"
      [] intent = "nudge" -> "nudge_generation"
      [] OTHER -> "general"

\* ------------------------------------------------------------------------
\* PromptManager (system prompt of a session)
\* ------------------------------------------------------------------------

\* PromptManager._map_intent_to_template
\* the variant that hands an intent missing from intent_map on as the name
map_intent_to_template_Identity(intent) ==
    LET key == Lower(intent)
    IN  CASE key \in {"general", "coaching"} -> "general"
          [] key = "onboarding" -> "onboarding"
          [] key \in {"goal_discovery", "goals"} -> "goal_discovery"
          [] key \in {"plan_explanation", "planning", "plan"} -> "plan_explanation"
          [] key \in {"checkin", "check-in"} -> "checkin"
          [] key = "nudge" -> "nudge_generation"
          [] OTHER -> key

\* intent_map.get(intent.lower(), "general")
map_intent_to_template(intent) ==
    LET key == Lower(intent)
    IN  CASE key \in {"general", "coaching"} -> "general"
          [] key = "onboarding" -> "onboarding"
          [] key \in {"goal_discovery", "goals"} -> "goal_discovery"
          [] key \in {"plan_explanation", "planning", "plan"} -> "plan_explanation"
          [] key \in {"checkin", "check-in"} -> "checkin"
          [] key = "nudge" -> "nudge_generation"
          [] OTHER -> "general"

\* PromptManager.get_system_prompt: the template of the intent, rendered
\* with the context
get_system_prompt(intent, context) ==
    <<"system prompt", map_intent_to_template(intent), context>>

\* ------------------------------------------------------------------------
\* PromptTemplate, PromptManager (the registry and the rendering)
\* ------------------------------------------------------------------------

\* A system_prompt is a sequence of parts: literal text or a replacement
\* field {key}.  A rendered prompt is a sequence of tokens, a token being
\* the sequence of the strings it is written with.
Text(s) == [kind |-> "text", key |-> s]
Field(k) == [kind |-> "field", key |-> k]

\* a part as the template string spells it
Written(part) ==
    IF part.kind = "field" THEN <<"{", part.key, "}">> ELSE <<part.key>>

\* DefaultDict.__missing__: f"{{{key}}}"
missing(key) == <<"{", key, "}">>

\* str.format(**context): every field is looked up in context
format(system_prompt, context) ==
    IF \E k \in DOMAIN system_prompt :
           system_prompt[k].kind = "field" /\ system_prompt[k].key \notin DOMAIN context
        THEN [raised |-> "KeyError", text |-> <<>>]
        ELSE [raised |-> "",
              text |-> [k \in DOMAIN system_prompt |->
                           IF system_prompt[k].kind = "field"
                               THEN <<context[system_prompt[k].key]>>
                               ELSE <<system_prompt[k].key>>]]

\* str.format_map(DefaultDict(context))
format_map(system_prompt, context) ==
    [raised |-> "",
     text |-> [k \in DOMAIN system_prompt |->
                  IF system_prompt[k].kind = "field"
                      THEN IF system_prompt[k].key \in DOMAIN context
                               THEN <<context[system_prompt[k].key]>>
                               ELSE missing(system_prompt[k].key)
                      ELSE <<system_prompt[k].key>>]]

\* the template string itself
Raw(system_prompt) ==
    [raised |-> "", text |-> [k \in DOMAIN system_prompt |-> Written(system_prompt[k])]]

\* the variant that answers a missing variable with the unrendered template
render_Raw(template, context) ==
    IF DOMAIN context = {}
        THEN Raw(template.system_prompt)
        ELSE IF format(template.system_prompt, context).raised = "KeyError"
                 THEN Raw(template.system_prompt)
                 ELSE format(template.system_prompt, context)

\* PromptTemplate.render
render(template, context) ==
    IF DOMAIN context = {}
        THEN Raw(template.system_prompt)
        ELSE IF format(template.system_prompt, context).raised = "KeyError"
                 THEN format_map(template.system_prompt, context)
                 ELSE format(template.system_prompt, context)

PromptTemplate(name, system_prompt) == [name |-> name, system_prompt |-> system_prompt]

TemplateNames == {"general", "onboarding", "goal_discovery", "plan_explanation",
                  "checkin", "nudge_generation"}

\* PromptManager.DEFAULT_PROMPTS: each built-in prompt is its own text
\* around the one field {context}
DEFAULT_PROMPTS ==
    [name \in TemplateNames |->
        PromptTemplate(name, <<Text(name), Field("context"), Text("guidelines")>>)]

\* what a YAML file of the templates directory holds: a mapping that may
\* lack a required field of PromptTemplate, or nothing
YamlData ==
    { <<>>,
      [name |-> "broken"],
      [name |-> "general", system_prompt |-> <<Text("from yaml"), Field("context")>>],
      [name |-> "extra", system_prompt |-> <<Text("Hello"), Field("name"), Field("context")>>] }

\* the templates a caller hands to add_template
AddedTemplates ==
    { PromptTemplate("general", <<Text("custom"), Field("context")>>),
      PromptTemplate("checkin", <<Text("How was your week")>>),
      PromptTemplate("extra", <<Text("Hello"), Field("name"), Field("context")>>) }

MaxFiles == 2

\* the directory listings: up to MaxFiles files
YamlFiles == UNION { [1..n -> YamlData] : n \in 0..MaxFiles }

\* PromptTemplate(**data) validates: name and system_prompt are required
Valid(data) == {"name", "system_prompt"} \subseteq DOMAIN data

\* one iteration of the loop of _load_custom_templates: empty data is
\* skipped, invalid data raises inside the try and is skipped
load_one(registry, data) ==
    IF DOMAIN data # {} /\ Valid(data)
        THEN [n \in DOMAIN registry \cup {data.name} |->
                 IF n = data.name THEN PromptTemplate(data.name, data.system_prompt)
                                  ELSE registry[n]]
        ELSE registry

RECURSIVE load_custom_templates(_, _)
load_custom_templates(registry, files) ==
    IF files = <<>>
        THEN registry
        ELSE load_custom_templates(load_one(registry, Head(files)), Tail(files))

\* no library call is made
NoValue == [raised |-> "", text |-> <<>>]
NoCall == [op |-> "", intent |-> "", arg |-> "", template_name |-> "", used |-> "",
           context |-> <<>>, message |-> <<>>, user |-> 0, failing |-> {},
           limit |-> 0, session_id |-> 0, turn |-> 0]

LibIdle ==
    /\ call = NoCall
    /\ answer = NoValue
    /\ templates = DEFAULT_PROMPTS

\* PromptManager.__init__
NewPromptManager ==
    /\ \E files \in YamlFiles :
           templates = load_custom_templates(DEFAULT_PROMPTS, files)
    /\ call = [NoCall EXCEPT !.op = "__init__"]
    /\ answer = NoValue

\* the variant that keeps only the template it is given
AddTemplate_Only(template) ==
    /\ templates' = [n \in {template.name} |-> template]
    /\ call' = [NoCall EXCEPT !.op = "add_template", !.template_name = template.name]
    /\ answer' = NoValue
    /\ UNCHANGED <<provVars, callVars, convVars>>

\* PromptManager.add_template
AddTemplate(template) ==
    /\ templates' = [n \in DOMAIN templates \cup {template.name} |->
                         IF n = template.name THEN template ELSE templates[n]]
    /\ call' = [NoCall EXCEPT !.op = "add_template", !.template_name = template.name]
    /\ answer' = NoValue
    /\ UNCHANGED <<provVars, callVars, convVars>>

\* the intent labels callers pass, the fixed table's and others
IntentLabels == {"general", "coaching", "Goals", "check-in", "nudge",
                 "nudge_generation", "goal_status", ""}

\* the context strings; "" stands for None and for the empty string
Contexts == {"", "income 5000"}

NoContext == "No additional context available"

\* PromptManager.get_system_prompt
GetSystemPrompt(intent, context) ==
    LET template_name == map_intent_to_template(intent)
        template == IF template_name \in DOMAIN templates
                        THEN templates[template_name]
                        ELSE templates["general"]
        context_dict == [k \in {"context"} |-> IF context = "" THEN NoContext ELSE context]
    IN  /\ call' = [NoCall EXCEPT !.op = "get_system_prompt", !.intent = intent,
                                  !.arg = context, !.template_name = template_name,
                                  !.used = template.name, !.context = context_dict]
        /\ answer' = render(template, context_dict)
        /\ UNCHANGED templates
        /\ UNCHANGED <<provVars, callVars, convVars>>

\* the dictionaries handed to render
Keys == {"context", "name"}
ContextDicts == UNION { [S -> {"John"}] : S \in SUBSET Keys }

\* PromptTemplate.render of a registered template
Render(name, context) ==
    /\ name \in DOMAIN templates
    /\ call' = [NoCall EXCEPT !.op = "render", !.template_name = name, !.used = name,
                              !.context = context]
    /\ answer' = render(templates[name], context)
    /\ UNCHANGED templates
    /\ UNCHANGED <<provVars, callVars, convVars>>

\* ------------------------------------------------------------------------
\* one call of IntentDetector.detect
\* ------------------------------------------------------------------------
MaxWords == 4

\* the words a message is made of
DetectWords == {" ", "Hello", "My Goals", "this", "explain", "new goal", "add goal",
                "set goal", "create goal"}

DetectMessages == UNION { [1..n -> DetectWords] : n \in 0..MaxWords }

\* a message is about to be handed to detect
NewDetect ==
    /\ \E message \in DetectMessages :
           call = [NoCall EXCEPT !.op = "message", !.message = message]
    /\ answer = NoValue
    /\ templates = DEFAULT_PROMPTS

\* IntentDetector.detect
Detect ==
    /\ call.op = "message"
    /\ call' = [call EXCEPT !.op = "detect"]
    /\ answer' = detect(call.message)
    /\ UNCHANGED <<templates, provVars, callVars, convVars>>

NextIntent == Detect

\* ------------------------------------------------------------------------
\* one call of ContextBuilder.build
\* ------------------------------------------------------------------------

\* None in a number field of DialogContext
Unset == -1

\* the queries of build; a storage failure makes a query raise
Categories == {"income", "expenses", "goals", "debts", "savings", "checkin", "plan"}

MaxFailures == 2

\* the rows storage holds for the user, latest first: amounts of Income and
\* ExpenseEstimate, target amounts of the active goals, balances of debts
\* and savings accounts, check-ins as <<mood_score, age in days>>
Rows ==
    [income : {<<>>, <<5000>>}, expenses : {<<>>, <<3000>>},
     goals : {<<>>, <<1000, 500>>}, debts : {<<>>, <<200>>},
     savings : {<<>>, <<300, 50>>}, checkin : {<<>>, << <<4, 2>> >>}]

RECURSIVE sum(_)
sum(amounts) == IF amounts = <<>> THEN 0 ELSE Head(amounts) + sum(Tail(amounts))

\* DialogContext(user_id=user.id): every other field at its default
DialogContext(user) ==
    [user_id |-> user, monthly_income |-> Unset, monthly_expenses |-> Unset,
     estimated_surplus |-> Unset, active_goals |-> <<>>, total_goal_target |-> Unset,
     total_debt |-> Unset, debt_count |-> 0, total_savings |-> Unset,
     savings_count |-> 0, recent_checkin_mood |-> Unset,
     days_since_last_checkin |-> Unset, plan_summary |-> <<>>]

\* truth value of an Optional number
Truthy(x) == x # Unset /\ x # 0

\* ContextBuilder._add_financial_snapshot: the income query and the
\* expenses query, in this order, inside one try block
add_financial_snapshot(context, rows, failing) ==
    IF "income" \in failing
        THEN context
        ELSE LET with_income ==
                     IF rows.income # <<>>
                         THEN [context EXCEPT !.monthly_income = Head(rows.income)]
                         ELSE context
             IN  IF "expenses" \in failing
                     THEN with_income
                     ELSE IF rows.expenses # <<>>
                              THEN [with_income EXCEPT
                                        !.monthly_expenses = Head(rows.expenses)]
                              ELSE with_income

\* ContextBuilder._add_goals
add_goals(context, rows, failing) ==
    IF "goals" \in failing
        THEN context
        ELSE [context EXCEPT !.active_goals = rows.goals,
                             !.total_goal_target = sum(rows.goals)]

\* ContextBuilder._add_debts
add_debts(context, rows, failing) ==
    IF "debts" \in failing
        THEN context
        ELSE [context EXCEPT !.debt_count = Len(rows.debts),
                             !.total_debt = sum(rows.debts)]

\* ContextBuilder._add_savings
add_savings(context, rows, failing) ==
    IF "savings" \in failing
        THEN context
        ELSE [context EXCEPT !.savings_count = Len(rows.savings),
                             !.total_savings = sum(rows.savings)]

\* ContextBuilder._add_recent_checkin
add_recent_checkin(context, rows, failing) ==
    IF "checkin" \in failing \/ rows.checkin = <<>>
        THEN context
        ELSE [context EXCEPT !.recent_checkin_mood = Head(rows.checkin)[1],
                             !.days_since_last_checkin = Head(rows.checkin)[2]]

\* build: context.estimated_surplus
add_surplus(context) ==
    IF Truthy(context.monthly_income) /\ Truthy(context.monthly_expenses)
        THEN [context EXCEPT
                  !.estimated_surplus = context.monthly_income - context.monthly_expenses]
        ELSE context

\* ContextBuilder._add_plan_summary: generate_plan is asked only when both
\* income and expenses are in the context
add_plan_summary(context, rows, failing) ==
    IF ~Truthy(context.monthly_income) \/ ~Truthy(context.monthly_expenses)
        THEN context
        ELSE IF "plan" \in failing
                 THEN context
                 ELSE [context EXCEPT !.plan_summary = <<"summary">>]

\* the body of ContextBuilder.build
build_context(user, rows, failing) ==
    add_plan_summary(
        add_surplus(
            add_recent_checkin(
                add_savings(
                    add_debts(
                        add_goals(
                            add_financial_snapshot(DialogContext(user), rows, failing),
                            rows, failing),
                        rows, failing),
                    rows, failing),
                rows, failing)),
        rows, failing)

\* a user with rows in storage, and the queries that will fail
NewBuild ==
    /\ \E user \in {1}, rows \in Rows, failing \in SUBSET Categories :
           /\ Cardinality(failing) <= MaxFailures
           /\ call = [NoCall EXCEPT !.op = "user", !.user = user, !.context = rows,
                                    !.failing = failing]
    /\ answer = NoValue
    /\ templates = DEFAULT_PROMPTS

\* ContextBuilder.build
Build ==
    /\ call.op = "user"
    /\ call' = [call EXCEPT !.op = "build"]
    /\ answer' = [raised |-> "",
                  text |-> build_context(call.user, call.context, call.failing)]
    /\ UNCHANGED <<templates, provVars, callVars, convVars>>

NextContext == Build

NextPrompts ==
    \/ \E template \in AddedTemplates : AddTemplate(template)
    \/ \E intent \in IntentLabels, context \in Contexts : GetSystemPrompt(intent, context)
    \/ \E name \in TemplateNames \cup {"extra"}, context \in ContextDicts :
           Render(name, context)

\* ------------------------------------------------------------------------
\* ConversationSession
\* ------------------------------------------------------------------------
None == 0
Unknown == -1

Message(role, content) == [role |-> role, content |-> content]

NoSession == [id |-> None, user_id |-> None, intent |-> "", messages |-> <<>>,
              context_snapshot |-> <<>>, updated_at |-> 0]

\* Variant: the message is put in front of the history.
add_message_Prepend(session, role, content) ==
    [session EXCEPT !.messages = <<Message(role, content)>> \o @,
                    !.updated_at = now]

\* ConversationSession.add_message
add_message(session, role, content) ==
    [session EXCEPT !.messages = Append(@, Message(role, content)),
                    !.updated_at = now]

\* the default of get_recent_messages(limit)
DefaultLimit == 20

\* seq[-limit:]
LastN(seq, limit) ==
    IF limit = 0 \/ Len(seq) <= limit THEN seq
    ELSE SubSeq(seq, Len(seq) - limit + 1, Len(seq))

\* Variant: only the newest message is kept behind the system message.
get_recent_messages_Newest(session, limit) ==
    LET systems == SelectSeq(session.messages, LAMBDA m : m.role = "system")
        non_system == SelectSeq(session.messages, LAMBDA m : m.role # "system")
    IN  (IF systems # <<>> THEN <<systems[1]>> ELSE <<>>) \o LastN(non_system, 1)

\* Variant: the oldest messages are kept (non_system[:limit]).
get_recent_messages_Oldest(session, limit) ==
    LET systems == SelectSeq(session.messages, LAMBDA m : m.role = "system")
        non_system == SelectSeq(session.messages, LAMBDA m : m.role # "system")
    IN  (IF systems # <<>> THEN <<systems[1]>> ELSE <<>>)
            \o SubSeq(non_system, 1, IF Len(non_system) <= limit THEN Len(non_system) ELSE limit)

\* ConversationSession.get_recent_messages
get_recent_messages(session, limit) ==
    LET systems == SelectSeq(session.messages, LAMBDA m : m.role = "system")
        non_system == SelectSeq(session.messages, LAMBDA m : m.role # "system")
    IN  (IF systems # <<>> THEN <<systems[1]>> ELSE <<>>) \o LastN(non_system, limit)

\* ------------------------------------------------------------------------
\* one call of ConversationSession.get_recent_messages
\* ------------------------------------------------------------------------
MaxHistory == 5
MaxLimit == 2

\* the histories of up to MaxHistory messages; the content of a message
\* tells its place
Histories ==
    UNION { { [k \in 1..n |-> [role |-> roles[k], content |-> <<"message", k>>]] :
                roles \in [1..n -> {"system", "user", "assistant"}] } :
            n \in 0..MaxHistory }

\* a session and a positive limit
NewWindow ==
    /\ \E messages \in Histories, limit \in 1..MaxLimit :
           call = [NoCall EXCEPT !.op = "session", !.message = messages, !.limit = limit]
    /\ answer = NoValue
    /\ templates = DEFAULT_PROMPTS

\* session.get_recent_messages(limit)
GetRecentMessages ==
    /\ call.op = "session"
    /\ call' = [call EXCEPT !.op = "get_recent_messages"]
    /\ answer' = [raised |-> "",
                  text |-> get_recent_messages([NoSession EXCEPT !.messages = call.message],
                                               call.limit)]
    /\ UNCHANGED <<templates, provVars, callVars, convVars>>

NextWindow == GetRecentMessages

\* ------------------------------------------------------------------------
\* ConversationService
\* ------------------------------------------------------------------------
Users == {1, 2}
Turns == 1..MaxTurns
Ids == 1..MaxSessions

SAFETY_DISCLAIMER == "\n\ndisclaimer"

advice_indicators == <<"recommend", "should invest", "i suggest", "my advice",
    "you should", "consider investing", "put your money", "best strategy",
    "optimal approach">>

\* _needs_disclaimer comparing the text as it is written
needs_disclaimer_CaseSensitive(text) ==
    \E k \in DOMAIN advice_indicators : Contains(text, advice_indicators[k])

\* ConversationService._needs_disclaimer
needs_disclaimer(text) ==
    \E k \in DOMAIN advice_indicators : Contains(lower(text), advice_indicators[k])

\* no exception
NoExc == [type |-> "", message |-> "", details |-> ""]

\* no HTTP response yet
NoResponse == [status |-> 0, detail |-> ""]

\* no return value
NoRet == [op |-> "", id |-> None, value |-> FALSE, count |-> 0]

IdleTurn == [pc |-> "idle", kind |-> "", msg |-> <<>>, sid |-> None, len0 |-> 0, pos |-> 0, rpos |-> 0,
             window |-> <<>>, full |-> <<>>, out |-> <<>>,
             exc |-> NoExc, http |-> NoResponse, events |-> <<>>]

InitConv ==
    /\ stored = {}
    /\ heap = [id \in Ids |-> NoSession]
    /\ next_id = 0
    /\ turns = [t \in Turns |-> IdleTurn]
    /\ llm_calls = 0
    /\ cleared = {}
    /\ now = 0
    /\ db = 0
    /\ ret = NoRet

\* ConversationService.get_session
get_session(session_id) ==
    IF session_id \in stored THEN heap[session_id] ELSE NoSession

InitChain ==
    /\ max_fragments = MaxTokens
    /\ providers \in 1..MaxProviders
    /\ available \in [1..providers -> BOOLEAN]
    /\ max_retries \in 0..MaxRetries
    /\ method \in {"generate", "stream"}
    /\ pc = "check"
    /\ i = 1
    /\ attempt = 0
    /\ errors = <<>>
    /\ calls = [p \in 1..providers |-> 0]
    /\ sleeps = [p \in 1..providers |-> 0]
    /\ outcomes = [p \in 1..providers |-> <<>>]
    /\ result = 0
    /\ tok = 0
    /\ forwarded = <<>>

\* FallbackChain(providers, max_retries) is about to be constructed
NewChain ==
    /\ max_fragments = MaxTokens
    /\ providers \in 0..MaxProviders
    /\ available \in [1..providers -> BOOLEAN]
    /\ max_retries \in 0..MaxRetries
    /\ method \in {"generate", "stream"}
    /\ pc = "new"
    /\ i = 1
    /\ attempt = 0
    /\ errors = <<>>
    /\ calls = [p \in 1..providers |-> 0]
    /\ sleeps = [p \in 1..providers |-> 0]
    /\ outcomes = [p \in 1..providers |-> <<>>]
    /\ result = 0
    /\ tok = 0
    /\ forwarded = <<>>

\* FallbackChain.__init__: an empty provider list raises ValueError
Construct ==
    /\ pc = "new"
    /\ pc' = IF providers = 0 THEN "ValueError" ELSE "check"
    /\ UNCHANGED convVars
    /\ UNCHANGED <<libVars, provVars, max_fragments, providers, available, max_retries, method, i,
                   attempt, errors, calls, sleeps, outcomes, result, tok, forwarded>>

\* an is_available that asks for every provider
is_available_All == \A p \in Chain : available[p]

\* FallbackChain.is_available
is_available == \E p \in Chain : available[p]

\* ------------------------------------------------------------------------
\* FallbackChain.generate
\* ------------------------------------------------------------------------

\* if not provider.is_available(): errors.append(...); continue
GenSkipUnavailable ==
    /\ method = "generate" /\ pc = "check" /\ i <= providers
    /\ ~available[i]
    /\ errors' = Append(errors, <<i, NotAvailable>>)
    /\ i' = i + 1
    /\ UNCHANGED convVars
    /\ UNCHANGED <<libVars, provVars, max_fragments, providers, available, max_retries, method, pc, attempt,
                   calls, sleeps, outcomes, result, tok, forwarded>>

\* Variant: the retry loop is entered without looking at is_available().
GenBeginProvider_NoCheck ==
    /\ method = "generate" /\ pc = "check" /\ i <= providers
    /\ attempt' = 0
    /\ pc' = "attempt"
    /\ UNCHANGED convVars
    /\ UNCHANGED <<libVars, provVars, max_fragments, providers, available, max_retries, method, i, errors,
                   calls, sleeps, outcomes, result, tok, forwarded>>

\* the provider is available: enter "for attempt in range(max_retries + 1)"
GenBeginProvider ==
    /\ method = "generate" /\ pc = "check" /\ i <= providers
    /\ available[i]
    /\ attempt' = 0
    /\ pc' = IF 0 < max_retries + 1 THEN "attempt" ELSE "check"
    /\ i' = IF 0 < max_retries + 1 THEN i ELSE i + 1
    /\ UNCHANGED convVars
    /\ UNCHANGED <<libVars, provVars, max_fragments, providers, available, max_retries, method, errors,
                   calls, sleeps, outcomes, result, tok, forwarded>>

\* Variant: the successful response is kept but the provider loop goes on.
GenCallSuccess_NoReturn ==
    /\ method = "generate" /\ pc = "attempt"
    /\ calls' = Bump(calls, i)
    /\ outcomes' = Log(outcomes, i, "ok")
    /\ result' = i
    /\ i' = i + 1
    /\ pc' = IF i + 1 > providers THEN "returned" ELSE "check"
    /\ UNCHANGED convVars
    /\ UNCHANGED <<libVars, provVars, max_fragments, providers, available, max_retries, method, attempt,
                   errors, sleeps, tok, forwarded>>

\* response = await provider.generate(...); return response
GenCallSuccess ==
    /\ method = "generate" /\ pc = "attempt"
    /\ calls' = Bump(calls, i)
    /\ outcomes' = Log(outcomes, i, "ok")
    /\ result' = i
    /\ pc' = "returned"
    /\ UNCHANGED convVars
    /\ UNCHANGED <<libVars, provVars, max_fragments, providers, available, max_retries, method, i, attempt,
                   errors, sleeps, tok, forwarded>>

\* Variant: a rate limit is handled like any other failure (slept and retried).
GenCallRateLimit_Retried ==
    /\ method = "generate" /\ pc = "attempt"
    /\ calls' = Bump(calls, i)
    /\ outcomes' = Log(outcomes, i, "rate")
    /\ IF attempt < max_retries
         THEN /\ sleeps' = Bump(sleeps, i)
              /\ pc' = "sleep"
              /\ UNCHANGED <<errors, i>>
         ELSE /\ errors' = Append(errors, <<i, RateLimited>>)
              /\ i' = i + 1
              /\ pc' = "check"
              /\ UNCHANGED sleeps
    /\ UNCHANGED convVars
    /\ UNCHANGED <<libVars, provVars, max_fragments, providers, available, max_retries, method, attempt,
                   result, tok, forwarded>>

\* except RateLimitError: errors.append(...); break
GenCallRateLimit ==
    /\ method = "generate" /\ pc = "attempt"
    /\ calls' = Bump(calls, i)
    /\ outcomes' = Log(outcomes, i, "rate")
    /\ errors' = Append(errors, <<i, RateLimited>>)
    /\ i' = i + 1
    /\ pc' = "check"
    /\ UNCHANGED convVars
    /\ UNCHANGED <<libVars, provVars, max_fragments, providers, available, max_retries, method, attempt,
                   sleeps, result, tok, forwarded>>

\* Variant: one attempt more than max_retries + 1 is made.
GenCallFailRetry_OneMore ==
    /\ method = "generate" /\ pc = "attempt"
    /\ attempt < max_retries + 1
    /\ calls' = Bump(calls, i)
    /\ outcomes' = Log(outcomes, i, "err")
    /\ sleeps' = Bump(sleeps, i)
    /\ pc' = "sleep"
    /\ UNCHANGED convVars
    /\ UNCHANGED <<libVars, provVars, max_fragments, providers, available, max_retries, method, i, attempt,
                   errors, result, tok, forwarded>>

\* Variant: the failure of every attempt is recorded, not only of the last.
GenCallFailRetry_Recorded ==
    /\ method = "generate" /\ pc = "attempt"
    /\ attempt < max_retries
    /\ calls' = Bump(calls, i)
    /\ outcomes' = Log(outcomes, i, "err")
    /\ errors' = Append(errors, <<i, Failed>>)
    /\ sleeps' = Bump(sleeps, i)
    /\ pc' = "sleep"
    /\ UNCHANGED convVars
    /\ UNCHANGED <<libVars, provVars, max_fragments, providers, available, max_retries, method, i, attempt,
                   result, tok, forwarded>>

\* except Exception, attempt < max_retries: await asyncio.sleep(retry_delay)
GenCallFailRetry ==
    /\ method = "generate" /\ pc = "attempt"
    /\ attempt < max_retries
    /\ calls' = Bump(calls, i)
    /\ outcomes' = Log(outcomes, i, "err")
    /\ sleeps' = Bump(sleeps, i)
    /\ pc' = "sleep"
    /\ UNCHANGED convVars
    /\ UNCHANGED <<libVars, provVars, max_fragments, providers, available, max_retries, method, i, attempt,
                   errors, result, tok, forwarded>>

\* Variant: after the delay the next provider is called, the failure of this
\* one not being recorded.
GenSleepDone_NextProvider ==
    /\ method = "generate" /\ pc = "sleep"
    /\ attempt' = 0
    /\ i' = IF i < providers THEN i + 1 ELSE i
    /\ pc' = "attempt"
    /\ UNCHANGED convVars
    /\ UNCHANGED <<libVars, provVars, max_fragments, providers, available, max_retries, method, errors,
                   calls, sleeps, outcomes, result, tok, forwarded>>

\* asyncio.sleep returns: next iteration of the attempt loop
GenSleepDone ==
    /\ method = "generate" /\ pc = "sleep"
    /\ attempt' = attempt + 1
    /\ pc' = "attempt"
    /\ UNCHANGED convVars
    /\ UNCHANGED <<libVars, provVars, max_fragments, providers, available, max_retries, method, i, errors,
                   calls, sleeps, outcomes, result, tok, forwarded>>

\* Variant: the delay is slept after the last attempt as well.
GenCallFailLast_Sleeps ==
    /\ method = "generate" /\ pc = "attempt"
    /\ ~(attempt < max_retries)
    /\ calls' = Bump(calls, i)
    /\ outcomes' = Log(outcomes, i, "err")
    /\ sleeps' = Bump(sleeps, i)
    /\ errors' = Append(errors, <<i, Failed>>)
    /\ i' = i + 1
    /\ pc' = "check"
    /\ UNCHANGED convVars
    /\ UNCHANGED <<libVars, provVars, max_fragments, providers, available, max_retries, method, attempt,
                   result, tok, forwarded>>

\* except Exception, last attempt: errors.append(...); the attempt loop ends
GenCallFailLast ==
    /\ method = "generate" /\ pc = "attempt"
    /\ ~(attempt < max_retries)
    /\ calls' = Bump(calls, i)
    /\ outcomes' = Log(outcomes, i, "err")
    /\ errors' = Append(errors, <<i, Failed>>)
    /\ i' = i + 1
    /\ pc' = "check"
    /\ UNCHANGED convVars
    /\ UNCHANGED <<libVars, provVars, max_fragments, providers, available, max_retries, method, attempt,
                   sleeps, result, tok, forwarded>>

\* the provider raises ContentFilteredError, attempt < max_retries: it is
\* no RateLimitError, so "except Exception" takes it like any other failure
GenCallFilteredRetry ==
    /\ method = "generate" /\ pc = "attempt"
    /\ attempt < max_retries
    /\ calls' = Bump(calls, i)
    /\ outcomes' = Log(outcomes, i, "filtered")
    /\ sleeps' = Bump(sleeps, i)
    /\ pc' = "sleep"
    /\ UNCHANGED convVars
    /\ UNCHANGED <<libVars, provVars, max_fragments, providers, available, max_retries, method, i, attempt,
                   errors, result, tok, forwarded>>

\* the provider raises ContentFilteredError on the last attempt:
\* errors.append(...); the attempt loop ends
GenCallFilteredLast ==
    /\ method = "generate" /\ pc = "attempt"
    /\ ~(attempt < max_retries)
    /\ calls' = Bump(calls, i)
    /\ outcomes' = Log(outcomes, i, "filtered")
    /\ errors' = Append(errors, <<i, Filtered>>)
    /\ i' = i + 1
    /\ pc' = "check"
    /\ UNCHANGED convVars
    /\ UNCHANGED <<libVars, provVars, max_fragments, providers, available, max_retries, method, attempt,
                   sleeps, result, tok, forwarded>>

\* the provider loop is over: raise AllProvidersFailedError(errors=errors)
GenRaiseAll ==
    /\ method = "generate" /\ pc = "check" /\ i > providers
    /\ pc' = "raised"
    /\ UNCHANGED convVars
    /\ UNCHANGED <<libVars, provVars, max_fragments, providers, available, max_retries, method, i, attempt,
                   errors, calls, sleeps, outcomes, result, tok, forwarded>>

\* ------------------------------------------------------------------------
\* FallbackChain.stream
\* ------------------------------------------------------------------------

\* if not provider.is_available(): errors.append(...); continue
StreamSkipUnavailable ==
    /\ method = "stream" /\ pc = "check" /\ i <= providers
    /\ ~available[i]
    /\ errors' = Append(errors, <<i, NotAvailable>>)
    /\ i' = i + 1
    /\ UNCHANGED convVars
    /\ UNCHANGED <<libVars, provVars, max_fragments, providers, available, max_retries, method, pc, attempt,
                   calls, sleeps, outcomes, result, tok, forwarded>>

\* async for token in provider.stream(...): the provider's stream is started
StreamBegin ==
    /\ method = "stream" /\ pc = "check" /\ i <= providers
    /\ available[i]
    /\ calls' = Bump(calls, i)
    /\ tok' = 0
    /\ pc' = "iter"
    /\ UNCHANGED convVars
    /\ UNCHANGED <<libVars, provVars, max_fragments, providers, available, max_retries, method, i, attempt,
                   errors, sleeps, outcomes, result, forwarded>>

\* the provider yields a fragment: yield token
StreamToken ==
    /\ method = "stream" /\ pc = "iter"
    /\ tok < MaxTokens
    /\ tok' = tok + 1
    /\ forwarded' = Append(forwarded, [provider |-> i, index |-> tok + 1])
    /\ UNCHANGED convVars
    /\ UNCHANGED <<libVars, provVars, max_fragments, providers, available, max_retries, method, pc, i, attempt,
                   errors, calls, sleeps, outcomes, result>>

\* the provider's stream is exhausted: return
StreamComplete ==
    /\ method = "stream" /\ pc = "iter"
    /\ outcomes' = Log(outcomes, i, "ok")
    /\ result' = i
    /\ pc' = "returned"
    /\ UNCHANGED convVars
    /\ UNCHANGED <<libVars, provVars, max_fragments, providers, available, max_retries, method, i, attempt,
                   errors, calls, sleeps, tok, forwarded>>

\* Variant: the rate limit is logged but not recorded in errors.
StreamRateLimit_Unrecorded ==
    /\ method = "stream" /\ pc = "iter"
    /\ outcomes' = Log(outcomes, i, "rate")
    /\ i' = i + 1
    /\ pc' = "check"
    /\ UNCHANGED convVars
    /\ UNCHANGED <<libVars, provVars, max_fragments, providers, available, max_retries, method, attempt,
                   errors, calls, sleeps, result, tok, forwarded>>

\* except RateLimitError: errors.append(...), then the next provider
StreamRateLimit ==
    /\ method = "stream" /\ pc = "iter"
    /\ outcomes' = Log(outcomes, i, "rate")
    /\ errors' = Append(errors, <<i, RateLimited>>)
    /\ i' = i + 1
    /\ pc' = "check"
    /\ UNCHANGED convVars
    /\ UNCHANGED <<libVars, provVars, max_fragments, providers, available, max_retries, method, attempt,
                   calls, sleeps, result, tok, forwarded>>

\* Variant: the failed stream is started again, after a delay, while
\* attempts are left.
StreamFail_Retry ==
    /\ method = "stream" /\ pc = "iter"
    /\ outcomes' = Log(outcomes, i, "err")
    /\ IF attempt < max_retries
         THEN /\ attempt' = attempt + 1
              /\ sleeps' = Bump(sleeps, i)
              /\ UNCHANGED <<errors, i>>
         ELSE /\ errors' = Append(errors, <<i, Failed>>)
              /\ i' = i + 1
              /\ attempt' = 0
              /\ UNCHANGED sleeps
    /\ pc' = "check"
    /\ UNCHANGED convVars
    /\ UNCHANGED <<libVars, provVars, max_fragments, providers, available, max_retries, method,
                   calls, result, tok, forwarded>>

\* Variant: the fragments of the failed provider are withdrawn.
StreamFail_Retract ==
    /\ method = "stream" /\ pc = "iter"
    /\ outcomes' = Log(outcomes, i, "err")
    /\ errors' = Append(errors, <<i, Failed>>)
    /\ forwarded' = SelectSeq(forwarded, LAMBDA f : f.provider # i)
    /\ i' = i + 1
    /\ pc' = "check"
    /\ UNCHANGED convVars
    /\ UNCHANGED <<libVars, provVars, max_fragments, providers, available, max_retries, method, attempt,
                   calls, sleeps, result, tok>>

\* except Exception: errors.append(...), then the next provider
StreamFail ==
    /\ method = "stream" /\ pc = "iter"
    /\ outcomes' = Log(outcomes, i, "err")
    /\ errors' = Append(errors, <<i, Failed>>)
    /\ i' = i + 1
    /\ pc' = "check"
    /\ UNCHANGED convVars
    /\ UNCHANGED <<libVars, provVars, max_fragments, providers, available, max_retries, method, attempt,
                   calls, sleeps, result, tok, forwarded>>

\* the provider loop is over: raise AllProvidersFailedError(errors=errors)
StreamRaiseAll ==
    /\ method = "stream" /\ pc = "check" /\ i > providers
    /\ pc' = "raised"
    /\ UNCHANGED convVars
    /\ UNCHANGED <<libVars, provVars, max_fragments, providers, available, max_retries, method, i, attempt,
                   errors, calls, sleeps, outcomes, result, tok, forwarded>>

NextChain ==
    \/ GenSkipUnavailable
    \/ GenBeginProvider
    \/ GenCallSuccess
    \/ GenCallRateLimit
    \/ GenCallFailRetry
    \/ GenSleepDone
    \/ GenCallFailLast
    \/ GenCallFilteredRetry
    \/ GenCallFilteredLast
    \/ GenRaiseAll
    \/ StreamSkipUnavailable
    \/ StreamBegin
    \/ StreamToken
    \/ StreamComplete
    \/ StreamRateLimit
    \/ StreamFail
    \/ StreamRaiseAll

\* ------------------------------------------------------------------------
\* GeminiProvider.generate and GeminiProvider.stream
\* ------------------------------------------------------------------------

\* LLMProviderError(provider=..., message=...), RateLimitError(...),
\* ContentFilteredError(...)
ProviderException(type, message) ==
    [type |-> type, message |-> message, details |-> ""]

\* no provider call is made
ProviderIdle ==
    /\ request = "generate"
    /\ timeout = 1
    /\ gemini_pc = "idle"
    /\ elapsed = 0
    /\ chunks = 0
    /\ raised = NoExc

\* the call has reached its await of chat.send_message_async
InitProvider ==
    /\ request \in {"generate", "stream"}
    /\ timeout \in 1..MaxTimeout
    /\ gemini_pc = "waiting"
    /\ elapsed = 0
    /\ chunks = 0
    /\ raised = NoExc

\* a second passes without an answer of the backend; asyncio.wait_for lets
\* generate wait for self._timeout seconds, stream awaits without a limit
GeminiTick ==
    /\ gemini_pc = "waiting"
    /\ elapsed < MaxWait
    /\ request = "generate" => elapsed < timeout
    /\ elapsed' = elapsed + 1
    /\ UNCHANGED <<request, timeout, gemini_pc, chunks, raised>>
    /\ UNCHANGED <<libVars, callVars, convVars>>

\* generate: the backend answers in time, return LLMResponse(...)
GeminiGenerateReturn ==
    /\ request = "generate" /\ gemini_pc = "waiting"
    /\ elapsed < timeout
    /\ gemini_pc' = "returned"
    /\ UNCHANGED <<request, timeout, elapsed, chunks, raised>>
    /\ UNCHANGED <<libVars, callVars, convVars>>

\* generate: the answer's finish_reason is SAFETY
GeminiGenerateFiltered ==
    /\ request = "generate" /\ gemini_pc = "waiting"
    /\ elapsed < timeout
    /\ gemini_pc' = "raised"
    /\ raised' = ProviderException("ContentFilteredError", Filtered)
    /\ UNCHANGED <<request, timeout, elapsed, chunks>>
    /\ UNCHANGED <<libVars, callVars, convVars>>

\* generate: the backend fails with a rate or quota message
GeminiGenerateRateLimit ==
    /\ request = "generate" /\ gemini_pc = "waiting"
    /\ elapsed < timeout
    /\ gemini_pc' = "raised"
    /\ raised' = ProviderException("RateLimitError", RateLimited)
    /\ UNCHANGED <<request, timeout, elapsed, chunks>>
    /\ UNCHANGED <<libVars, callVars, convVars>>

\* generate: the backend fails otherwise
GeminiGenerateError ==
    /\ request = "generate" /\ gemini_pc = "waiting"
    /\ elapsed < timeout
    /\ gemini_pc' = "raised"
    /\ raised' = ProviderException("LLMProviderError", Failed)
    /\ UNCHANGED <<request, timeout, elapsed, chunks>>
    /\ UNCHANGED <<libVars, callVars, convVars>>

\* generate: except asyncio.TimeoutError
GeminiGenerateTimeout ==
    /\ request = "generate" /\ gemini_pc = "waiting"
    /\ elapsed = timeout
    /\ gemini_pc' = "raised"
    /\ raised' = ProviderException("LLMProviderError", "Request timed out")
    /\ UNCHANGED <<request, timeout, elapsed, chunks>>
    /\ UNCHANGED <<libVars, callVars, convVars>>

\* stream: the backend delivers a chunk, yield chunk.text
GeminiStreamChunk ==
    /\ request = "stream" /\ gemini_pc = "waiting"
    /\ chunks < MaxChunks
    /\ chunks' = chunks + 1
    /\ elapsed' = 0
    /\ UNCHANGED <<request, timeout, gemini_pc, raised>>
    /\ UNCHANGED <<libVars, callVars, convVars>>

\* stream: the backend's response is exhausted
GeminiStreamEnd ==
    /\ request = "stream" /\ gemini_pc = "waiting"
    /\ gemini_pc' = "returned"
    /\ UNCHANGED <<request, timeout, elapsed, chunks, raised>>
    /\ UNCHANGED <<libVars, callVars, convVars>>

\* stream: except Exception
GeminiStreamError ==
    /\ request = "stream" /\ gemini_pc = "waiting"
    /\ gemini_pc' = "raised"
    /\ raised' = ProviderException("LLMProviderError", "Streaming failed")
    /\ UNCHANGED <<request, timeout, elapsed, chunks>>
    /\ UNCHANGED <<libVars, callVars, convVars>>

NextProvider ==
    \/ GeminiTick
    \/ GeminiGenerateReturn
    \/ GeminiGenerateFiltered
    \/ GeminiGenerateRateLimit
    \/ GeminiGenerateError
    \/ GeminiGenerateTimeout
    \/ GeminiStreamChunk
    \/ GeminiStreamEnd
    \/ GeminiStreamError

\* the construction of a chain
NextConstruct == Construct

ConstructInit == NewChain /\ ProviderIdle /\ InitConv /\ LibIdle

SpecConstruct == ConstructInit /\ [][NextConstruct]_vars

\* a chain call, with no conversation turn running
ChainInit == InitChain /\ ProviderIdle /\ InitConv /\ LibIdle

SpecChain == ChainInit /\ [][NextChain]_vars

\* the same call where every await comes back: a provider call returns or
\* raises, asyncio.sleep returns, and the loop takes its next step
SpecChainLive == ChainInit /\ [][NextChain]_vars /\ WF_vars(NextChain)


\* ------------------------------------------------------------------------
\* ConversationService operations
\* ------------------------------------------------------------------------
StartIntents == {"general", "checkin"}

\* get_intent_for_prompt(detect(user_message).intent): every session the
\* service creates by itself is a general one
DetectedIntentName_General ==
    [msg \in UserMessages |-> "general"]

\* get_intent_for_prompt(detect(user_message).intent) of the messages sent
DetectedIntentName ==
    [msg \in UserMessages |-> get_intent_for_prompt(detect(msg).intent)]

\* ContextBuilder.build(user): the user's records as they are in storage now
build(user) == <<user, db>>

\* Variant: the session is stored without its system message.
NewSession_Bare(session_id, user, intent) ==
    [id |-> session_id, user_id |-> user, intent |-> intent,
     messages |-> <<>>, context_snapshot |-> build(user),
     updated_at |-> now]

\* the session start_session builds: ConversationSession(...) and
\* session.add_message("system", system_prompt)
NewSession(session_id, user, intent) ==
    add_message([id |-> session_id, user_id |-> user, intent |-> intent,
                 messages |-> <<>>, context_snapshot |-> build(user),
                 updated_at |-> now],
                "system", get_system_prompt(intent, build(user)))

\* ConversationService.start_session
StartSession(user, intent) ==
    /\ next_id < MaxSessions
    /\ LET session_id == next_id + 1
       IN  /\ next_id' = session_id
           /\ heap' = [heap EXCEPT ![session_id] = NewSession(session_id, user, intent)]
           /\ stored' = stored \cup {session_id}
    /\ ret' = NoRet
    /\ UNCHANGED <<turns, llm_calls, cleared, now, db>>
    /\ UNCHANGED chainVars

InFlight(t) == turns[t].pc \in {"await", "streaming"}

\* ConversationError(message=..., details={"error": str(e)})
ConversationError(message, error) ==
    [type |-> "ConversationError", message |-> message, details |-> error]

\* AllProvidersFailedError(errors=errors), as FallbackChain raises it
AllProvidersFailedError ==
    [type |-> "AllProvidersFailedError", message |-> "All LLM providers failed",
     details |-> "provider_errors"]

\* the send_message endpoint: the response for the outcome of
\* service.send_message
send_message_endpoint(e) ==
    IF e = NoExc THEN [status |-> 200, detail |-> ""]
    ELSE IF e.type = "ConversationError"
    THEN [status |-> 400, detail |-> e.message]
    ELSE IF e.type = "AllProvidersFailedError"
    THEN [status |-> 503,
          detail |-> "AI service temporarily unavailable. Please try again later."]
    ELSE [status |-> 500, detail |-> "Failed to process message"]

\* token.replace("\n", "\\n"): of the texts streamed only the disclaimer
\* holds newlines
escaped(token) ==
    IF token = SAFETY_DISCLAIMER THEN "\\n\\ndisclaimer" ELSE token

\* the events of the stream_message endpoint
DataEvent(token) == [event |-> "data", text |-> escaped(token)]
DoneEvent == [event |-> "[DONE]", text |-> ""]
ErrorEvent(e) == [event |-> "[ERROR]", text |-> e.message]

\* send_message / stream_message with the window taken before the user
\* message is appended
BeginTurn_WindowFirst(t, kind, arg, msg, user) ==
    /\ turns[t].pc = "idle"
    /\ t > 1 => turns[t - 1].pc # "idle"
    /\ LET existing == arg # None /\ arg \in stored
           session_id == IF existing THEN arg ELSE next_id + 1
           intent_name == DetectedIntentName[msg]
           heap1 == IF existing THEN heap
                    ELSE [heap EXCEPT ![session_id] =
                              NewSession(session_id, user, intent_name)]
           valid == ~(msg = <<>> \/ strip(msg) = <<>>)
           heap2 == IF valid
                    THEN [heap1 EXCEPT ![session_id] = add_message(@, "user", msg)]
                    ELSE heap1
           e == IF valid THEN NoExc ELSE ConversationError("Message cannot be empty", "")
       IN  /\ existing \/ next_id < MaxSessions
           /\ next_id' = IF existing THEN next_id ELSE session_id
           /\ stored' = IF existing THEN stored ELSE stored \cup {session_id}
           /\ heap' = heap2
           /\ llm_calls' = IF valid THEN llm_calls + 1 ELSE llm_calls
           /\ turns' = [turns EXCEPT ![t] =
                 [pc |-> IF ~valid THEN "rejected"
                         ELSE IF kind = "send" THEN "await" ELSE "streaming",
                  kind |-> kind, msg |-> msg,
                  sid |-> session_id,
                  len0 |-> Len(heap1[session_id].messages),
                  pos |-> IF valid THEN Len(heap2[session_id].messages) ELSE 0,
                  rpos |-> 0,
                  window |-> IF valid
                             THEN get_recent_messages(heap1[session_id], DefaultLimit)
                             ELSE <<>>,
                  full |-> <<>>, out |-> <<>>,
                  exc |-> e,
                  http |-> IF ~valid /\ kind = "send"
                           THEN send_message_endpoint(e) ELSE NoResponse,
                  events |-> IF ~valid /\ kind = "stream"
                             THEN <<ErrorEvent(e)>> ELSE <<>>]]
    /\ ret' = NoRet
    /\ UNCHANGED <<cleared, now, db>>
    /\ UNCHANGED chainVars

\* send_message / stream_message up to the first await of the provider chain:
\* get or create the session, validate, append the user message, take the
\* window and call self.llm; an invalid message raises ConversationError,
\* which the endpoint answers
BeginTurn(t, kind, arg, msg, user) ==
    /\ turns[t].pc = "idle"
    /\ t > 1 => turns[t - 1].pc # "idle"
    /\ LET existing == arg # None /\ arg \in stored
           session_id == IF existing THEN arg ELSE next_id + 1
           intent_name == DetectedIntentName[msg]
           heap1 == IF existing THEN heap
                    ELSE [heap EXCEPT ![session_id] =
                              NewSession(session_id, user, intent_name)]
           valid == ~(msg = <<>> \/ strip(msg) = <<>>)
           heap2 == IF valid
                    THEN [heap1 EXCEPT ![session_id] = add_message(@, "user", msg)]
                    ELSE heap1
           e == IF valid THEN NoExc ELSE ConversationError("Message cannot be empty", "")
       IN  /\ existing \/ next_id < MaxSessions
           /\ next_id' = IF existing THEN next_id ELSE session_id
           /\ stored' = IF existing THEN stored ELSE stored \cup {session_id}
           /\ heap' = heap2
           /\ llm_calls' = IF valid THEN llm_calls + 1 ELSE llm_calls
           /\ turns' = [turns EXCEPT ![t] =
                 [pc |-> IF ~valid THEN "rejected"
                         ELSE IF kind = "send" THEN "await" ELSE "streaming",
                  kind |-> kind, msg |-> msg,
                  sid |-> session_id,
                  len0 |-> Len(heap1[session_id].messages),
                  pos |-> IF valid THEN Len(heap2[session_id].messages) ELSE 0,
                  rpos |-> 0,
                  window |-> IF valid
                             THEN get_recent_messages(heap2[session_id], DefaultLimit)
                             ELSE <<>>,
                  full |-> <<>>, out |-> <<>>,
                  exc |-> e,
                  http |-> IF ~valid /\ kind = "send"
                           THEN send_message_endpoint(e) ELSE NoResponse,
                  events |-> IF ~valid /\ kind = "stream"
                             THEN <<ErrorEvent(e)>> ELSE <<>>]]
    /\ ret' = NoRet
    /\ UNCHANGED <<cleared, now, db>>
    /\ UNCHANGED chainVars

\* ConversationService.send_message, to "await self.llm.generate(...)"
SendMessage(t, arg, msg, user) == BeginTurn(t, "send", arg, msg, user)

\* a send_message that stores its session again when the response is there
SendReply_Restore(t, content) ==
    /\ turns[t].pc = "await"
    /\ LET session_id == turns[t].sid
           session == add_message(heap[session_id], "assistant", content)
       IN  /\ heap' = [heap EXCEPT ![session_id] = session]
           /\ stored' = stored \cup {session_id}
           /\ turns' = [turns EXCEPT ![t].pc = "done",
                                     ![t].full = content,
                                     ![t].rpos = Len(session.messages),
                                     ![t].out = IF needs_disclaimer(content)
                                                THEN content \o <<SAFETY_DISCLAIMER>>
                                                ELSE content,
                                     ![t].http = send_message_endpoint(NoExc)]
    /\ ret' = NoRet
    /\ UNCHANGED <<next_id, llm_calls, cleared, now, db>>
    /\ UNCHANGED chainVars

\* a send_message that stores the reply as it returns it, disclaimer included
SendReply_StoreFinal(t, content) ==
    /\ turns[t].pc = "await"
    /\ LET session_id == turns[t].sid
           final_response == IF needs_disclaimer(content)
                             THEN content \o <<SAFETY_DISCLAIMER>>
                             ELSE content
           session == add_message(heap[session_id], "assistant", final_response)
       IN  /\ heap' = [heap EXCEPT ![session_id] = session]
           /\ turns' = [turns EXCEPT ![t].pc = "done",
                                     ![t].full = content,
                                     ![t].rpos = Len(session.messages),
                                     ![t].out = final_response,
                                     ![t].http = send_message_endpoint(NoExc)]
    /\ ret' = NoRet
    /\ UNCHANGED <<stored, next_id, llm_calls, cleared, now, db>>
    /\ UNCHANGED chainVars

\* send_message resumes with the response: append the assistant message,
\* return the reply with the disclaimer when it is needed; the endpoint
\* answers with it
SendReply(t, content) ==
    /\ turns[t].pc = "await"
    /\ LET session_id == turns[t].sid
           session == add_message(heap[session_id], "assistant", content)
       IN  /\ heap' = [heap EXCEPT ![session_id] = session]
           /\ turns' = [turns EXCEPT ![t].pc = "done",
                                     ![t].full = content,
                                     ![t].rpos = Len(session.messages),
                                     ![t].out = IF needs_disclaimer(content)
                                                THEN content \o <<SAFETY_DISCLAIMER>>
                                                ELSE content,
                                     ![t].http = send_message_endpoint(NoExc)]
    /\ ret' = NoRet
    /\ UNCHANGED <<stored, next_id, llm_calls, cleared, now, db>>
    /\ UNCHANGED chainVars

\* send_message resumes with the chain's failure: "except Exception as e"
\* raises ConversationError in its place, which the endpoint answers
SendFail(t) ==
    /\ turns[t].pc = "await"
    /\ LET e == ConversationError("Failed to generate response. Please try again.",
                                  AllProvidersFailedError.message)
       IN  turns' = [turns EXCEPT ![t].pc = "failed",
                                  ![t].exc = e,
                                  ![t].http = send_message_endpoint(e)]
    /\ ret' = NoRet
    /\ UNCHANGED <<stored, heap, next_id, llm_calls, cleared, now, db>>
    /\ UNCHANGED chainVars

\* ConversationService.stream_message, to the first fragment awaited from
\* self.llm.stream(...)
StreamMessage(t, arg, msg, user) == BeginTurn(t, "stream", arg, msg, user)

\* async for token in self.llm.stream(...): full_response += token; yield
\* token; the endpoint sends it as a data event
StreamMessageToken(t, token) ==
    /\ turns[t].pc = "streaming"
    /\ Len(turns[t].full) < max_fragments
    /\ turns' = [turns EXCEPT ![t].full = Append(@, token),
                              ![t].out = Append(@, token),
                              ![t].events = Append(@, DataEvent(token))]
    /\ ret' = NoRet
    /\ UNCHANGED <<stored, heap, next_id, llm_calls, cleared, now, db>>
    /\ UNCHANGED chainVars

\* the end of a stream that never yields the disclaimer
StreamMessageEnd_NoDisclaimer(t) ==
    /\ turns[t].pc = "streaming"
    /\ LET session_id == turns[t].sid
           full_response == turns[t].full
           session == add_message(heap[session_id], "assistant", full_response)
       IN  /\ heap' = [heap EXCEPT ![session_id] = session]
           /\ turns' = [turns EXCEPT ![t].pc = "done",
                                     ![t].rpos = Len(session.messages),
                                     ![t].events = Append(@, DoneEvent)]
    /\ ret' = NoRet
    /\ UNCHANGED <<stored, next_id, llm_calls, cleared, now, db>>
    /\ UNCHANGED chainVars

\* the chain's stream is exhausted: append the assistant message, yield the
\* disclaimer when it is needed; the endpoint sends it and then [DONE]
StreamMessageEnd(t) ==
    /\ turns[t].pc = "streaming"
    /\ LET session_id == turns[t].sid
           full_response == turns[t].full
           session == add_message(heap[session_id], "assistant", full_response)
           disclaimer == IF needs_disclaimer(full_response)
                         THEN <<SAFETY_DISCLAIMER>> ELSE <<>>
       IN  /\ heap' = [heap EXCEPT ![session_id] = session]
           /\ turns' = [turns EXCEPT ![t].pc = "done",
                                     ![t].rpos = Len(session.messages),
                                     ![t].out = @ \o disclaimer,
                                     ![t].events =
                                         Append(@ \o [k \in DOMAIN disclaimer |->
                                                         DataEvent(disclaimer[k])],
                                                DoneEvent)]
    /\ ret' = NoRet
    /\ UNCHANGED <<stored, next_id, llm_calls, cleared, now, db>>
    /\ UNCHANGED chainVars

\* a failed stream that the endpoint also closes with [DONE]
StreamMessageFail_Done(t) ==
    /\ turns[t].pc = "streaming"
    /\ LET e == ConversationError("Streaming failed. Please try again.",
                                  AllProvidersFailedError.message)
       IN  turns' = [turns EXCEPT ![t].pc = "failed",
                                  ![t].exc = e,
                                  ![t].events = @ \o <<ErrorEvent(e), DoneEvent>>]
    /\ ret' = NoRet
    /\ UNCHANGED <<stored, heap, next_id, llm_calls, cleared, now, db>>
    /\ UNCHANGED chainVars

\* the chain's stream raises: raise ConversationError, which the endpoint
\* sends as an [ERROR] event
StreamMessageFail(t) ==
    /\ turns[t].pc = "streaming"
    /\ LET e == ConversationError("Streaming failed. Please try again.",
                                  AllProvidersFailedError.message)
       IN  turns' = [turns EXCEPT ![t].pc = "failed",
                                  ![t].exc = e,
                                  ![t].events = Append(@, ErrorEvent(e))]
    /\ ret' = NoRet
    /\ UNCHANGED <<stored, heap, next_id, llm_calls, cleared, now, db>>
    /\ UNCHANGED chainVars

\* the value a store operation returned
Returned(op, session_id, value, count) ==
    [op |-> op, id |-> session_id, value |-> value, count |-> count]

\* a clear_session that empties the store
ClearSession_All(session_id) ==
    /\ IF session_id \in stored
       THEN /\ stored' = {}
            /\ cleared' = cleared \cup stored
            /\ ret' = Returned("clear_session", session_id, TRUE, 0)
       ELSE /\ UNCHANGED <<stored, cleared>>
            /\ ret' = Returned("clear_session", session_id, FALSE, 0)
    /\ UNCHANGED <<heap, next_id, turns, llm_calls, now, db>>
    /\ UNCHANGED chainVars

\* ConversationService.clear_session
ClearSession(session_id) ==
    /\ IF session_id \in stored
       THEN /\ stored' = stored \ {session_id}
            /\ cleared' = cleared \cup {session_id}
            /\ ret' = Returned("clear_session", session_id, TRUE, 0)
       ELSE /\ UNCHANGED <<stored, cleared>>
            /\ ret' = Returned("clear_session", session_id, FALSE, 0)
    /\ UNCHANGED <<heap, next_id, turns, llm_calls, now, db>>
    /\ UNCHANGED chainVars

\* a refresh_context that always inserts the new system message in front
RefreshContext_Insert(session_id, user) ==
    /\ IF session_id \in stored
       THEN LET session == heap[session_id]
                context == build(user)
                system_prompt == get_system_prompt(session.intent, context)
            IN  /\ heap' = [heap EXCEPT ![session_id] =
                       [session EXCEPT
                           !.context_snapshot = context,
                           !.messages = <<Message("system", system_prompt)>> \o @,
                           !.updated_at = now]]
                /\ ret' = Returned("refresh_context", session_id, TRUE, 0)
       ELSE /\ UNCHANGED heap
            /\ ret' = Returned("refresh_context", session_id, FALSE, 0)
    /\ UNCHANGED <<stored, next_id, turns, llm_calls, cleared, now, db>>
    /\ UNCHANGED chainVars

\* ConversationService.refresh_context
RefreshContext(session_id, user) ==
    /\ IF session_id \in stored
       THEN LET session == heap[session_id]
                context == build(user)
                system_prompt == get_system_prompt(session.intent, context)
            IN  /\ heap' = [heap EXCEPT ![session_id] =
                       [session EXCEPT
                           !.context_snapshot = context,
                           !.messages =
                               IF @ # <<>> /\ @[1].role = "system"
                               THEN [@ EXCEPT ![1] = Message("system", system_prompt)]
                               ELSE <<Message("system", system_prompt)>> \o @,
                           !.updated_at = now]]
                /\ ret' = Returned("refresh_context", session_id, TRUE, 0)
       ELSE /\ UNCHANGED heap
            /\ ret' = Returned("refresh_context", session_id, FALSE, 0)
    /\ UNCHANGED <<stored, next_id, turns, llm_calls, cleared, now, db>>
    /\ UNCHANGED chainVars

\* Variant: a session updated exactly max_age_hours ago is stale as well.
CleanupStaleSessions_Inclusive(max_age_hours) ==
    /\ LET cutoff == now - max_age_hours
           stale_ids == {sid \in stored : heap[sid].updated_at <= cutoff}
       IN  /\ stored' = stored \ stale_ids
           /\ ret' = Returned("cleanup_stale_sessions", None, FALSE,
                              Cardinality(stale_ids))
    /\ UNCHANGED <<heap, next_id, turns, llm_calls, cleared, now, db>>
    /\ UNCHANGED chainVars

\* ConversationService.cleanup_stale_sessions
CleanupStaleSessions(max_age_hours) ==
    /\ LET cutoff == now - max_age_hours
           stale_ids == {sid \in stored : heap[sid].updated_at < cutoff}
       IN  /\ stored' = stored \ stale_ids
           /\ ret' = Returned("cleanup_stale_sessions", None, FALSE,
                              Cardinality(stale_ids))
    /\ UNCHANGED <<heap, next_id, turns, llm_calls, cleared, now, db>>
    /\ UNCHANGED chainVars

\* an hour passes
Tick ==
    /\ now < MaxClock
    /\ now' = now + 1
    /\ ret' = NoRet
    /\ UNCHANGED <<stored, heap, next_id, turns, llm_calls, cleared, db>>
    /\ UNCHANGED chainVars

\* the users' financial records change in storage
UpdateData ==
    /\ db < MaxDataVersion
    /\ db' = db + 1
    /\ ret' = NoRet
    /\ UNCHANGED <<stored, heap, next_id, turns, llm_calls, cleared, now>>
    /\ UNCHANGED chainVars

\* the chain is not running
ChainIdle(fragments) ==
    /\ max_fragments = fragments
    /\ providers = 1
    /\ available = <<TRUE>>
    /\ max_retries = 1
    /\ method = "generate"
    /\ pc = "idle"
    /\ i = 1
    /\ attempt = 0
    /\ errors = <<>>
    /\ calls = <<0>>
    /\ sleeps = <<0>>
    /\ outcomes = << <<>> >>
    /\ result = 0
    /\ tok = 0
    /\ forwarded = <<>>

ArgIds == {None, Unknown} \cup (1..next_id)

NextConv ==
    \/ \E u \in Users, intent \in StartIntents : StartSession(u, intent)
    \/ \E t \in Turns, arg \in ArgIds, msg \in UserMessages, u \in Users :
           SendMessage(t, arg, msg, u)
    \/ \E t \in Turns, content \in Replies : SendReply(t, content)
    \/ \E t \in Turns : SendFail(t)
    \/ \E t \in Turns, arg \in ArgIds, msg \in UserMessages, u \in Users :
           StreamMessage(t, arg, msg, u)
    \/ \E t \in Turns, token \in Fragments : StreamMessageToken(t, token)
    \/ \E t \in Turns : StreamMessageEnd(t)
    \/ \E t \in Turns : StreamMessageFail(t)
    \/ \E id \in stored : ClearSession(id)

\* the service, with no call of the chain modelled step by step
ConvInit == ChainIdle(MaxFragments) /\ ProviderIdle /\ InitConv /\ LibIdle

SpecConv == ConvInit /\ [][NextConv]_vars

\* the session store under every operation that touches it, the clock and
\* the users' data: one call of send_message or stream_message, by one user,
\* with one message and one reply
StoreMessage == <<"Hello">>
StoreReply == <<"sure">>
StoreFragment == "sure"
StoreUser == 1

StoreTurns == {1}

NextStore ==
    \/ StartSession(StoreUser, "general")
    \/ \E t \in StoreTurns, arg \in ArgIds : SendMessage(t, arg, StoreMessage, StoreUser)
    \/ \E t \in StoreTurns : SendReply(t, StoreReply)
    \/ \E t \in StoreTurns : SendFail(t)
    \/ \E t \in StoreTurns, arg \in ArgIds : StreamMessage(t, arg, StoreMessage, StoreUser)
    \/ \E t \in StoreTurns : StreamMessageToken(t, StoreFragment)
    \/ \E t \in StoreTurns : StreamMessageEnd(t)
    \/ \E t \in StoreTurns : StreamMessageFail(t)
    \/ \E id \in ArgIds \ {None} : ClearSession(id)
    \/ \E id \in ArgIds \ {None}, u \in Users : RefreshContext(id, u)
    \/ \E h \in 0..MaxAgeHours : CleanupStaleSessions(h)
    \/ Tick
    \/ UpdateData

StoreInit == ChainIdle(MaxFragments) /\ ProviderIdle /\ InitConv /\ LibIdle

SpecStore == StoreInit /\ [][NextStore]_vars

\* stream_message calls alone, with streams of up to MaxStreamFragments
\* fragments
NextStream ==
    \/ \E t \in Turns, arg \in ArgIds, msg \in UserMessages :
           StreamMessage(t, arg, msg, StoreUser)
    \/ \E t \in Turns, token \in Fragments : StreamMessageToken(t, token)
    \/ \E t \in Turns : StreamMessageEnd(t)
    \/ \E t \in Turns : StreamMessageFail(t)

StreamInit == ChainIdle(MaxStreamFragments) /\ ProviderIdle /\ InitConv /\ LibIdle

\* a provider call, with no chain call and no conversation turn running
ProviderInit == InitProvider /\ ChainIdle(MaxFragments) /\ InitConv /\ LibIdle

\* a PromptManager: its construction, then add_template, get_system_prompt
\* and render in any order
PromptsInit == NewPromptManager /\ ChainIdle(MaxFragments) /\ ProviderIdle /\ InitConv
SpecPrompts == PromptsInit /\ [][NextPrompts]_vars

\* one call of IntentDetector.detect on a message of up to MaxWords words
IntentInit == NewDetect /\ ChainIdle(MaxFragments) /\ ProviderIdle /\ InitConv
SpecIntent == IntentInit /\ [][NextIntent]_vars

\* one call of ContextBuilder.build with up to MaxFailures failing queries
ContextInit == NewBuild /\ ChainIdle(MaxFragments) /\ ProviderIdle /\ InitConv
SpecContext == ContextInit /\ [][NextContext]_vars

\* send_message and stream_message calls, with streams of up to
\* MaxStreamFragments fragments
NextTurns ==
    \/ \E t \in Turns, arg \in ArgIds, msg \in UserMessages :
           SendMessage(t, arg, msg, StoreUser)
    \/ \E t \in Turns, content \in Replies : SendReply(t, content)
    \/ \E t \in Turns : SendFail(t)
    \/ \E t \in Turns, arg \in ArgIds, msg \in UserMessages :
           StreamMessage(t, arg, msg, StoreUser)
    \/ \E t \in Turns, token \in Fragments : StreamMessageToken(t, token)
    \/ \E t \in Turns : StreamMessageEnd(t)
    \/ \E t \in Turns : StreamMessageFail(t)

TurnsInit == ChainIdle(MaxStreamFragments) /\ ProviderIdle /\ InitConv /\ LibIdle

SpecTurns == TurnsInit /\ [][NextTurns]_vars

\* one call of get_recent_messages on a history of up to MaxHistory messages
WindowInit == NewWindow /\ ChainIdle(MaxFragments) /\ ProviderIdle /\ InitConv
SpecWindow == WindowInit /\ [][NextWindow]_vars

\* ------------------------------------------------------------------------
\* POST /chat/message: a client and the send_message endpoint
\* ------------------------------------------------------------------------

\* UUID("00000000-0000-0000-0000-000000000000"): no uuid4() returns it
NilUUID == -2

\* the client posts SendMessageRequest(message, session_id): no id, an id
\* the store does not know, the id of a stored session, or the id the
\* last response gave
PostMessage(session_id) ==
    /\ call.op \in {"", "response", "error"}
    /\ call.turn < MaxTurns
    /\ \/ session_id \in {None, Unknown} \cup stored
       \/ call.op = "response" /\ session_id = answer.session_id
    /\ call' = [NoCall EXCEPT !.op = "request", !.session_id = session_id,
                              !.turn = call.turn + 1]
    /\ UNCHANGED <<answer, templates, provVars, callVars, convVars>>

\* the endpoint calls service.send_message(session_id=request.session_id, ...)
ServeMessage(msg, user) ==
    /\ call.op = "request"
    /\ SendMessage(call.turn, call.session_id, msg, user)

\* return SendMessageResponse(session_id=request.session_id or UUID(0), ...)
Respond ==
    /\ call.op = "request"
    /\ turns[call.turn].pc = "done"
    /\ call' = [call EXCEPT !.op = "response"]
    /\ answer' = [turn |-> call.turn, status |-> turns[call.turn].http.status,
                  session_id |-> IF call.session_id # None THEN call.session_id
                                                           ELSE NilUUID,
                  response |-> turns[call.turn].out]
    /\ UNCHANGED <<templates, provVars, callVars, convVars>>

\* raise HTTPException(...): the response holds no session id
RespondError ==
    /\ call.op = "request"
    /\ turns[call.turn].pc \in {"rejected", "failed"}
    /\ call' = [call EXCEPT !.op = "error"]
    /\ answer' = [turn |-> call.turn, status |-> turns[call.turn].http.status,
                  session_id |-> None, response |-> <<>>]
    /\ UNCHANGED <<templates, provVars, callVars, convVars>>

NextEndpoint ==
    \/ StartSession(StoreUser, "general")
    \/ \E session_id \in ArgIds \cup {NilUUID} : PostMessage(session_id)
    \/ \E msg \in UserMessages : ServeMessage(msg, StoreUser)
    \/ \E t \in Turns, content \in Replies : SendReply(t, content)
    \/ \E t \in Turns : SendFail(t)
    \/ Respond
    \/ RespondError

EndpointInit == ChainIdle(MaxFragments) /\ ProviderIdle /\ InitConv /\ LibIdle

SpecEndpoint == EndpointInit /\ [][NextEndpoint]_vars

SpecProvider == ProviderInit /\ [][NextProvider]_vars

SpecStream == StreamInit /\ [][NextStream]_vars


\* ------------------------------------------------------------------------
\* Properties of the fallback chain
\* ------------------------------------------------------------------------

AllErr(n) == [a \in 1..n |-> "err"]
LastOf(s) == s[Len(s)]

\* the reason generate/stream records for a provider the chain has passed
ReasonOf(j) ==
    IF ~available[j] THEN NotAvailable
    ELSE IF outcomes[j] # <<>> /\ LastOf(outcomes[j]) = "rate" THEN RateLimited
    ELSE IF outcomes[j] # <<>> /\ LastOf(outcomes[j]) = "filtered" THEN Filtered
    ELSE Failed

\* the first k providers have failed (non-rate-limit) on every attempt
FirstFailing(k) ==
    \A j \in 1..k : available[j] /\ outcomes[j] = AllErr(max_retries + 1)

\* C1: generate over a chain whose first K providers fail with a
\* non-rate-limit error on every attempt and whose provider K+1 succeeds
\* returns provider K+1's response and invokes no provider after K+1; when
\* the first provider succeeds at once it is called exactly once and no
\* other provider is called.
C1_FirstSuccessReturned ==
    method = "generate" =>
        /\ \A k \in 0..(providers - 1) :
              ( /\ FirstFailing(k)
                /\ outcomes[k + 1] # <<>>
                /\ LastOf(outcomes[k + 1]) = "ok" )
              => /\ pc = "returned"
                 /\ result = k + 1
                 /\ \A j \in Chain : j > k + 1 => calls[j] = 0
        /\ outcomes[1] = <<"ok">> =>
              /\ calls[1] = 1
              /\ \A j \in Chain : j > 1 => calls[j] = 0

C1_Witness ==
    /\ method = "generate" /\ pc = "returned"
    /\ max_retries >= 1
    /\ result = 2 /\ providers > 2
    /\ FirstFailing(1)
    /\ calls[1] = max_retries + 1

\* C2: a provider whose is_available() reports false is never invoked by
\* generate or stream; once the chain has passed it, it is recorded as
\* unavailable at its place in errors.
C2_UnavailableNeverCalled ==
    \A j \in Chain :
        ~available[j] =>
            /\ calls[j] = 0
            /\ outcomes[j] = <<>>
            /\ i > j => ( /\ Len(errors) >= j
                          /\ errors[j] = <<j, NotAvailable>> )

C2_Witness ==
    /\ pc = "returned"
    /\ \E j \in Chain : j > 1 /\ ~available[j] /\ result > j /\ calls[j - 1] > 0

\* C3: in generate a rate limit is the last attempt on its provider: the
\* chain has moved to the next provider, the rate limit is recorded, and
\* the only delays slept for that provider follow earlier non-rate-limit
\* failures; a provider that is rate limited at once is called exactly once
\* and no delay is slept for it.
C3_RateLimitNotRetried ==
    method = "generate" =>
        \A j \in Chain : \A a \in DOMAIN outcomes[j] :
            outcomes[j][a] = "rate" =>
                /\ a = Len(outcomes[j])
                /\ calls[j] = a
                /\ sleeps[j] = a - 1
                /\ i > j
                /\ errors[j] = <<j, RateLimited>>

C3_Witness ==
    /\ method = "generate"
    /\ max_retries >= 1
    /\ outcomes[1] = <<"rate">>
    /\ calls[1] = 1 /\ sleeps[1] = 0
    /\ providers >= 2 /\ calls[2] >= 1

\* C4: when generate raises AllProvidersFailedError the error list has
\* exactly one (provider, reason) entry per provider, in chain order,
\* whatever the mix of unavailable, rate-limited and exhausted providers.
C4_AllFailedOneEntryEach ==
    (method = "generate" /\ pc = "raised") =>
        /\ Len(errors) = providers
        /\ \A j \in Chain : errors[j] = <<j, ReasonOf(j)>>
        /\ \A j \in Chain :
              available[j] => ( /\ outcomes[j] # <<>>
                                /\ LastOf(outcomes[j]) # "ok" )

C4_Witness ==
    /\ method = "generate" /\ pc = "raised"
    /\ max_retries >= 1
    /\ \E j \in Chain : errors[j][2] = NotAvailable
    /\ \E j \in Chain : errors[j][2] = RateLimited
    /\ \E j \in Chain : errors[j][2] = Failed /\ calls[j] = max_retries + 1

C8_StreamCommitsToProvider ==
    \A p, q \in DOMAIN forwarded : forwarded[p].provider = forwarded[q].provider

OnlyFailures(j) ==
    \A a \in DOMAIN outcomes[j] : outcomes[j][a] \in {"err", "filtered"}

\* C32: in generate an available provider that fails with a non-rate-limit
\* error on every attempt is called exactly max_retries + 1 times and the
\* delay is slept exactly max_retries times, once after every attempt but
\* the last; while attempts are left its failure is not recorded and the
\* chain stays on it, and with the last attempt the failure is recorded and
\* the chain moves on
C32_RetriesThenNext ==
    method = "generate" =>
        \A j \in Chain :
            (available[j] /\ outcomes[j] # <<>> /\ OnlyFailures(j)) =>
                /\ calls[j] = Len(outcomes[j])
                /\ calls[j] <= max_retries + 1
                /\ IF calls[j] = max_retries + 1
                       THEN /\ sleeps[j] = max_retries
                            /\ i > j
                            /\ Len(errors) >= j
                            /\ errors[j] = <<j, ReasonOf(j)>>
                       ELSE /\ sleeps[j] = calls[j]
                            /\ i = j
                            /\ Len(errors) = j - 1
                            /\ pc \in {"sleep", "attempt"}

C32_Witness ==
    /\ method = "generate"
    /\ max_retries = 2
    /\ outcomes[1] = <<"err", "err", "err">>
    /\ calls[1] = 3 /\ sleeps[1] = 2
    /\ errors[1] = <<1, Failed>>
    /\ providers >= 2 /\ calls[2] = 1

\* C36: providers are contacted in chain order in generate and in stream:
\* a step that invokes a provider invokes the one the chain stands at, every
\* provider before it has its entry in errors (skipped as unavailable, or
\* failed) and none other has; the chain never steps back, so a provider it
\* has passed is not invoked again
C36_ChainOrder ==
    [][ /\ i' >= i
        /\ \A j \in Chain :
              calls'[j] # calls[j] =>
                  /\ j = i
                  /\ calls'[j] = calls[j] + 1
                  /\ Len(errors) = j - 1
                  /\ \A k \in 1..(j - 1) :
                         /\ errors[k][1] = k
                         /\ errors[k][2] = NotAvailable <=> ~available[k]
                         /\ available[k] => (calls[k] > 0 /\ LastOf(outcomes[k]) # "ok")
      ]_vars

\* the third provider is invoked after one was skipped and one had failed
C36_Witness ==
    /\ providers = 3
    /\ ~available[1] /\ available[2] /\ calls[2] > 0
    /\ calls[3] = 1
    /\ Len(errors) >= 2
    /\ errors[1] = <<1, NotAvailable>> /\ errors[2][1] = 2

RECURSIVE TotalCalls(_)
TotalCalls(n) == IF n = 0 THEN 0 ELSE calls[n] + TotalCalls(n - 1)

\* C37: when every provider call returns or raises, generate makes at most
\* N * (max_retries + 1) provider calls for a chain of N providers and ends,
\* either returning the first successful response or raising
\* AllProvidersFailedError
C37_GenerateTerminates ==
    /\ [](method = "generate" =>
            /\ TotalCalls(providers) <= providers * (max_retries + 1)
            /\ pc = "returned" =>
                   /\ result \in Chain
                   /\ LastOf(outcomes[result]) = "ok"
                   /\ \A j \in Chain : \A a \in DOMAIN outcomes[j] :
                          outcomes[j][a] = "ok" => (j = result /\ a = Len(outcomes[j]))
            /\ pc = "raised" =>
                   \A j \in Chain : \A a \in DOMAIN outcomes[j] : outcomes[j][a] # "ok")
    /\ (method = "generate" ~> pc \in {"returned", "raised"})

\* every provider of the longest chain used up all its attempts
C37_Witness ==
    /\ method = "generate" /\ pc = "raised"
    /\ providers = MaxProviders /\ max_retries = MaxRetries
    /\ TotalCalls(providers) = providers * (max_retries + 1)

Allocated == 1..next_id

\* the turns that appended a user message to session id
TurnsOn(id) == {t \in Turns : turns[t].sid = id /\ turns[t].pos > 0}

\* the turn ran alone and succeeded: its reply directly follows its message
Sequential(t) == turns[t].pc = "done" /\ turns[t].rpos = turns[t].len0 + 2

AllBlank(text) == \A k \in DOMAIN text : text[k] = " "

CountRole(messages, role) ==
    Cardinality({k \in DOMAIN messages : messages[k].role = role})

\* C5: start_session puts the new session into the store with exactly one
\* message, the system message of the requested intent; when the k sends (or streams) run on a session
\* were sequential and successful its history is the system message followed
\* by k (user, assistant) pairs, each turn's message and reply in that
\* order; a session deleted by clear_session is not found by get_session.
C5_SessionLifecycle ==
    /\ [](\A id \in Allocated :
            (\A t \in TurnsOn(id) : Sequential(t)) =>
                LET messages == heap[id].messages
                IN  /\ Len(messages) = 1 + 2 * Cardinality(TurnsOn(id))
                    /\ messages[1] = Message("system", get_system_prompt(heap[id].intent, heap[id].context_snapshot))
                    /\ \A k \in 2..Len(messages) :
                          messages[k].role = IF k % 2 = 0 THEN "user" ELSE "assistant"
                    /\ \A t \in TurnsOn(id) :
                          /\ messages[turns[t].len0 + 1] = Message("user", turns[t].msg)
                          /\ messages[turns[t].len0 + 2] = Message("assistant", turns[t].full))
    /\ [](\A id \in cleared : get_session(id) = NoSession)
    /\ [][\A id \in Ids :
            (id \notin stored /\ id \in stored') =>
                /\ heap'[id].messages[1] =
                       Message("system", get_system_prompt(heap'[id].intent, heap'[id].context_snapshot))
                /\ CountRole(heap'[id].messages, "system") = 1
                /\ (turns' = turns =>
                       /\ Len(heap'[id].messages) = 1
                       /\ heap'[id].intent \in StartIntents)
                /\ get_session(id)' = heap'[id]
         ]_vars

C5_Witness ==
    \E id \in cleared :
        /\ get_session(id) = NoSession
        /\ heap[id].intent = "general"
        /\ Cardinality(TurnsOn(id)) = 2
        /\ \A t \in TurnsOn(id) : Sequential(t) /\ turns[t].kind = "send"
        /\ Len(heap[id].messages) = 5

\* C6: a send_message or stream_message call with an empty or
\* whitespace-only message is rejected without a call of the provider
\* chain and without a user message appended: the chain has been called
\* once per turn that was not rejected, and never for a blank message.
C6_BlankRejectedBeforeProvider ==
    /\ \A t \in Turns :
          (turns[t].pc # "idle" /\ AllBlank(turns[t].msg)) =>
              /\ turns[t].pc = "rejected"
              /\ turns[t].pos = 0
              /\ turns[t].window = <<>>
    /\ llm_calls = Cardinality({t \in Turns : turns[t].pc \notin {"idle", "rejected"}})

C6_Witness ==
    /\ llm_calls = 0
    /\ \E t1, t2 \in Turns :
          /\ turns[t1].pc = "rejected" /\ turns[t1].kind = "send"
          /\ turns[t1].msg = <<>>
          /\ turns[t2].pc = "rejected" /\ turns[t2].kind = "stream"
          /\ turns[t2].msg = <<" ">>

\* C10: turns on one session are not mutually excluded: while two turns
\* both wait for the provider chain on the same session, both user messages
\* are in the history with no reply to either, and the window the later
\* turn handed to the chain holds the earlier turn's user message (when it
\* is among the last DefaultLimit messages).
C10_TurnsInterleave ==
    \A t1, t2 \in Turns :
        ( /\ InFlight(t1) /\ InFlight(t2)
          /\ turns[t1].sid = turns[t2].sid
          /\ turns[t1].pos < turns[t2].pos )
        => LET messages == heap[turns[t1].sid].messages
               window == turns[t2].window
           IN  /\ messages[turns[t1].pos] = Message("user", turns[t1].msg)
               /\ messages[turns[t2].pos] = Message("user", turns[t2].msg)
               /\ CountRole(messages, "user") >= CountRole(messages, "assistant") + 2
               /\ window[Len(window)] = Message("user", turns[t2].msg)
               /\ turns[t2].pos - turns[t1].pos < DefaultLimit =>
                      window[Len(window) - (turns[t2].pos - turns[t1].pos)]
                          = Message("user", turns[t1].msg)

C10_Witness ==
    \E t1, t2 \in Turns :
        /\ turns[t1].sid = turns[t2].sid
        /\ turns[t1].kind = "send" /\ turns[t2].kind = "stream"
        /\ turns[t1].pc = "done" /\ InFlight(t2)
        /\ turns[t2].pos = turns[t1].pos + 1
        /\ turns[t1].rpos = turns[t2].pos + 1
        /\ LET messages == heap[turns[t1].sid].messages
               window == turns[t2].window
           IN  /\ messages[turns[t1].pos].role = "user"
               /\ messages[turns[t2].pos].role = "user"
               /\ messages[turns[t1].rpos].role = "assistant"
               /\ window[Len(window) - 1] = Message("user", turns[t1].msg)
               /\ window[Len(window)] = Message("user", turns[t2].msg)

\* the text, lower-cased, contains one of the advice phrases
AdviceText(text) ==
    \E k \in DOMAIN advice_indicators :
        \E j \in DOMAIN text : Lower(text[j]) = advice_indicators[k]

\* the turns that appended their assistant message to session id
RepliedOn(id) == {t \in Turns : turns[t].sid = id /\ turns[t].rpos > 0}

\* C11: within one send_message turn the user message is appended first,
\* then the chain is called with a window whose last element is that user
\* message, and the assistant message is appended only after the chain has
\* returned: while the turn waits it has appended no reply, a failed turn
\* never appends one, and the reply of a finished turn lies behind its user
\* message; the session holds exactly one assistant message per turn that
\* got its reply.
C11_SendOrder ==
    /\ \A t \in Turns :
           turns[t].kind = "send" /\ turns[t].pc \in {"await", "done", "failed"} =>
               LET messages == heap[turns[t].sid].messages
                   window == turns[t].window
               IN  /\ turns[t].pos = turns[t].len0 + 1
                   /\ messages[turns[t].pos] = Message("user", turns[t].msg)
                   /\ window # <<>>
                   /\ window[Len(window)] = Message("user", turns[t].msg)
                   /\ turns[t].pc \in {"await", "failed"} => turns[t].rpos = 0
                   /\ turns[t].pc = "done" =>
                          /\ turns[t].rpos > turns[t].pos
                          /\ messages[turns[t].rpos] = Message("assistant", turns[t].full)
    /\ \A id \in Allocated :
           CountRole(heap[id].messages, "assistant") = Cardinality(RepliedOn(id))

C11_Witness ==
    \E t \in Turns :
        /\ turns[t].kind = "send" /\ turns[t].pc = "done"
        /\ turns[t].len0 > 1
        /\ turns[t].window[Len(turns[t].window)] = Message("user", turns[t].msg)
        /\ heap[turns[t].sid].messages[turns[t].rpos].role = "assistant"

\* C12: send_message and stream_message called with no session id, or with
\* an id that is not in the store, create exactly one new session, owned by
\* the caller, whose intent is the prompt intent of the intent detected in
\* the message, and run the turn on it; called with an id that is in the
\* store they create no session and run the turn on the stored one.
C12_GetOrCreate ==
    [][\A t \in Turns, arg \in ArgIds, msg \in UserMessages, u \in Users :
          ( /\ turns[t].pc = "idle" /\ turns'[t].pc # "idle"
            /\ SendMessage(t, arg, msg, u) \/ StreamMessage(t, arg, msg, u) ) =>
              IF arg # None /\ arg \in stored
              THEN /\ next_id' = next_id
                   /\ stored' = stored
                   /\ turns'[t].sid = arg
                   /\ \A id \in Ids \ {arg} : heap'[id] = heap[id]
                   /\ heap'[arg].intent = heap[arg].intent
                   /\ heap'[arg].user_id = heap[arg].user_id
              ELSE /\ next_id' = next_id + 1
                   /\ stored' = stored \cup {next_id'}
                   /\ next_id' \notin stored
                   /\ turns'[t].sid = next_id'
                   /\ \A id \in Ids \ {next_id'} : heap'[id] = heap[id]
                   /\ heap'[next_id'].id = next_id'
                   /\ heap'[next_id'].user_id = u
                   /\ heap'[next_id'].intent = get_intent_for_prompt(detect(msg).intent)
                   /\ heap'[next_id'].messages[1].role = "system"
                   /\ turns'[t].len0 = 1
    ]_vars

C12_Witness ==
    \E t1, t2 \in Turns :
        /\ t1 # t2
        /\ turns[t1].sid = turns[t2].sid
        /\ turns[t1].kind = "send" /\ turns[t2].kind = "stream"
        /\ turns[t1].msg = <<" ", "goal">>
        /\ turns[t1].len0 = 1 /\ turns[t2].len0 = 2
        /\ heap[turns[t1].sid].intent = "goal_discovery"
        /\ next_id = 1

\* C13: stream_message forwards every fragment of the chain in order as it
\* arrives, appends the assistant message, the concatenation of the
\* fragments, exactly once and only after the chain's stream is exhausted,
\* and then yields the disclaimer as the final fragment exactly when the
\* accumulated text contains an advice phrase.
C13_StreamOrder ==
    /\ \A t \in Turns :
           turns[t].kind = "stream" /\ turns[t].pc \in {"streaming", "done", "failed"} =>
               LET messages == heap[turns[t].sid].messages
               IN  /\ turns[t].pc \in {"streaming", "failed"} =>
                          /\ turns[t].out = turns[t].full
                          /\ turns[t].rpos = 0
                   /\ turns[t].pc = "done" =>
                          /\ turns[t].rpos > turns[t].pos
                          /\ messages[turns[t].rpos] = Message("assistant", turns[t].full)
                          /\ turns[t].out = IF AdviceText(turns[t].full)
                                            THEN Append(turns[t].full, SAFETY_DISCLAIMER)
                                            ELSE turns[t].full
    /\ \A id \in Allocated :
           Cardinality({k \in DOMAIN heap[id].messages :
                           \E t \in Turns :
                               /\ turns[t].kind = "stream" /\ turns[t].sid = id
                               /\ turns[t].rpos = k})
               = Cardinality({t \in RepliedOn(id) : turns[t].kind = "stream"})

C13_Witness ==
    \E t1, t2 \in Turns :
        /\ turns[t1].kind = "stream" /\ turns[t1].pc = "done"
        /\ turns[t1].full = <<"sure", "You should">>
        /\ turns[t1].out = <<"sure", "You should", SAFETY_DISCLAIMER>>
        /\ turns[t2].kind = "stream" /\ turns[t2].pc = "done"
        /\ turns[t2].sid = turns[t1].sid
        /\ turns[t2].full = <<"sure", "sure">> /\ turns[t2].out = <<"sure", "sure">>
        /\ CountRole(heap[turns[t1].sid].messages, "assistant") = 2

\* C18: send_message returns the reply followed by the fixed disclaimer
\* exactly when the lower-cased reply contains an advice phrase; otherwise
\* it returns the reply unchanged.
C18_SendDisclaimer ==
    \A t \in Turns :
        turns[t].kind = "send" /\ turns[t].pc = "done" =>
            /\ AdviceText(turns[t].full) =>
                   turns[t].out = turns[t].full \o <<SAFETY_DISCLAIMER>>
            /\ ~AdviceText(turns[t].full) => turns[t].out = turns[t].full
            /\ turns[t].http.status = 200

C18_Witness ==
    \E t1, t2 \in Turns :
        /\ turns[t1].kind = "send" /\ turns[t1].pc = "done"
        /\ turns[t1].full = <<"You should", "save">>
        /\ turns[t1].out = <<"You should", "save", SAFETY_DISCLAIMER>>
        /\ turns[t2].kind = "send" /\ turns[t2].pc = "done"
        /\ turns[t2].out = <<"sure">>

\* C14: when every provider fails during a send, the caller of the chat
\* endpoint gets the generic "service temporarily unavailable" answer, HTTP
\* 503 (the AllProvidersFailedError reaching the router), and no provider's
\* error text.
C14_AllFailedIs503 ==
    \A t \in Turns :
        turns[t].kind = "send" /\ turns[t].pc = "failed" =>
            /\ turns[t].http.status = 503
            /\ turns[t].http.detail
                   = "AI service temporarily unavailable. Please try again later."
            /\ turns[t].http.detail # turns[t].exc.details

\* C15: a ContentFilteredError of a provider is surfaced by
\* FallbackChain.generate and not retried: the filtered call is the last
\* call the chain makes.
C15_ContentFilterSurfaced ==
    method = "generate" =>
        \A j \in Chain : \A a \in DOMAIN outcomes[j] :
            outcomes[j][a] = "filtered" =>
                /\ a = Len(outcomes[j])
                /\ ~(i = j /\ pc \in {"sleep", "attempt"})
                /\ result # j

\* the terminal events among the events sent for turn t
Terminals(t) == {k \in DOMAIN turns[t].events : turns[t].events[k].event # "data"}

\* C16: the /chat/message/stream response emits one data event per
\* fragment, in order, and ends with exactly one terminal event: [DONE]
\* after a stream that completed, [ERROR] <message> after a failure, also
\* one in the middle of the stream; nothing is emitted after the terminal
\* event and [DONE] is never emitted on a failed stream.
C16_StreamEvents ==
    /\ [](\A t \in Turns : turns[t].kind = "stream" =>
            LET events == turns[t].events
                n == Len(turns[t].out)
            IN  /\ Len(events) >= n
                /\ \A k \in 1..Len(turns[t].full) :
                       events[k] = [event |-> "data", text |-> turns[t].full[k]]
                /\ \A k \in 1..n : events[k].event = "data"
                /\ turns[t].pc = "streaming" => Len(events) = n
                /\ turns[t].pc = "done" =>
                       /\ Len(events) = n + 1
                       /\ events[n + 1].event = "[DONE]"
                /\ turns[t].pc \in {"failed", "rejected"} =>
                       /\ Len(events) = n + 1
                       /\ events[n + 1] = [event |-> "[ERROR]",
                                           text |-> turns[t].exc.message]
                       /\ \A k \in DOMAIN events : events[k].event # "[DONE]")
    /\ [][\A t \in Turns :
              Terminals(t) # {} => turns'[t].events = turns[t].events]_vars

C16_Witness ==
    \E t1, t2 \in Turns :
        /\ turns[t1].kind = "stream" /\ turns[t1].pc = "failed"
        /\ turns[t1].events = <<[event |-> "data", text |-> "sure"],
                                [event |-> "[ERROR]",
                                 text |-> "Streaming failed. Please try again."]>>
        /\ turns[t2].kind = "stream" /\ turns[t2].pc = "done"
        /\ Len(turns[t2].events) = 4
        /\ turns[t2].events[3].event = "data"
        /\ turns[t2].events[4] = [event |-> "[DONE]", text |-> ""]

\* C17: every provider call has a bounded wait: a call of generate or of
\* stream that waits for the backend has not waited longer than the
\* configured timeout.
C17_BoundedWait ==
    gemini_pc = "waiting" => elapsed <= timeout

\* C19: refresh_context on a session in the store replaces only the leading
\* system message, in place at index 0: the number of messages, every other
\* message and their order, the session's id, owner and intent are
\* unchanged, and so are the store and all other sessions; for an id that is
\* not in the store it returns False and changes nothing.
C19_RefreshFrame ==
    [][ret'.op = "refresh_context" =>
          LET id == ret'.id
          IN  /\ stored' = stored
              /\ turns' = turns
              /\ \A other \in Ids \ {id} : heap'[other] = heap[other]
              /\ IF id \in stored
                 THEN /\ ret'.value
                      /\ Len(heap'[id].messages) = Len(heap[id].messages)
                      /\ \A k \in 2..Len(heap[id].messages) :
                             heap'[id].messages[k] = heap[id].messages[k]
                      /\ \E u \in Users :
                             heap'[id].messages[1] =
                                 Message("system",
                                         get_system_prompt(heap[id].intent, <<u, db>>))
                      /\ heap'[id].id = heap[id].id
                      /\ heap'[id].user_id = heap[id].user_id
                      /\ heap'[id].intent = heap[id].intent
                 ELSE /\ ~ret'.value
                      /\ heap' = heap
    ]_vars

C19_Witness ==
    \E id \in stored :
        /\ ret = Returned("refresh_context", id, TRUE, 0)
        /\ Len(heap[id].messages) = 3
        /\ heap[id].user_id = 1
        /\ heap[id].context_snapshot = <<2, 1>>
        /\ heap[id].messages[1].content = get_system_prompt(heap[id].intent, <<2, 1>>)
        /\ heap[id].messages[3].role = "assistant"

\* C20: clear_session removes exactly the named session and returns True
\* when it is in the store, and returns False leaving the store unchanged
\* when it is not; a session leaves the store only in a step of
\* clear_session or cleanup_stale_sessions, never in a step of send, stream,
\* refresh or the clock.
C20_StoreRemoval ==
    [][/\ ret'.op = "clear_session" =>
              /\ heap' = heap
              /\ IF ret'.id \in stored
                 THEN stored' = stored \ {ret'.id} /\ ret'.value
                 ELSE stored' = stored /\ ~ret'.value
       /\ (stored \ stored') # {} =>
              ret'.op \in {"clear_session", "cleanup_stale_sessions"}
       /\ (now' # now \/ ret'.op = "refresh_context") => stored' = stored
       /\ (turns' # turns) => stored \subseteq stored'
    ]_vars

C20_Witness ==
    \E id \in Allocated :
        /\ ret = Returned("clear_session", id, FALSE, 0)
        /\ id \in cleared
        /\ id \notin stored
        /\ stored # {}
        /\ now = MaxClock

\* C27: a send_message or stream_message turn that fails because the
\* provider chain failed leaves the session history as it was before the
\* call: the user message of the failed turn is not in the history.
C27_FailedTurnLeavesHistory ==
    \A t \in Turns :
        turns[t].pc = "failed" =>
            LET messages == heap[turns[t].sid].messages
            IN  ~( /\ turns[t].pos \in DOMAIN messages
                   /\ messages[turns[t].pos] = Message("user", turns[t].msg) )

\* C28: a send_message or stream_message call that is rejected for an empty
\* or whitespace-only message leaves the session store unchanged: no session
\* is created and no session object is modified.
C28_RejectedLeavesStore ==
    [][\A t \in Turns :
          turns[t].pc = "idle" /\ turns'[t].pc = "rejected" =>
              /\ stored' = stored
              /\ next_id' = next_id
              /\ heap' = heap
    ]_vars

\* C29: a session is only mutated on behalf of its owner: a send or stream
\* request by a user that names a stored session of another user appends
\* nothing to that session and calls the provider chain with nothing of it.
C29_OwnerOnly ==
    [][\A t \in Turns, arg \in Ids, msg \in UserMessages, u \in Users :
          ( /\ turns[t].pc = "idle" /\ turns'[t].pc # "idle"
            /\ arg \in stored
            /\ heap[arg].user_id # u
            /\ SendMessage(t, arg, msg, u) \/ StreamMessage(t, arg, msg, u) ) =>
              /\ heap'[arg] = heap[arg]
              /\ llm_calls' = llm_calls
    ]_vars

\* C30: a session removed by clear_session or cleanup_stale_sessions while
\* a send or stream turn on it awaits the provider is never put back into
\* the store: the step in which a turn completes, with its reply or with a
\* failure, leaves the keys of the store as they are.
C30_RemovedStaysRemoved ==
    [][\A t \in Turns :
          InFlight(t) /\ turns'[t].pc \in {"done", "failed"} =>
              /\ stored' = stored
              /\ turns[t].sid \notin stored => get_session(turns[t].sid) = NoSession
    ]_vars

C30_Witness ==
    \E t \in Turns :
        /\ turns[t].pc = "done" /\ turns[t].rpos > 0
        /\ turns[t].sid \notin stored
        /\ turns[t].sid \notin cleared
        /\ heap[turns[t].sid].updated_at = now
        /\ heap[turns[t].sid].messages[turns[t].rpos].role = "assistant"

\* C26: FallbackChain.is_available() is true if and only if at least one
\* member provider is available, and constructing a FallbackChain from an
\* empty provider list fails, so a constructed chain has at least one
\* provider.
C26_ChainAvailability ==
    /\ is_available <=> Cardinality({p \in 1..providers : available[p]}) >= 1
    /\ pc = "ValueError" <=> (pc # "new" /\ providers = 0)
    /\ pc \notin {"new", "ValueError"} => providers >= 1

C26_Witness ==
    /\ pc = "check"
    /\ providers = 3
    /\ available = <<FALSE, TRUE, FALSE>>
    /\ is_available

\* ------------------------------------------------------------------------
\* Properties of the prompt registry
\* ------------------------------------------------------------------------

\* C24: the registry of a PromptManager holds a template named "general" in
\* every reachable state: after construction with any external definitions
\* (empty, invalid, or one named "general") and after any add_template calls
C24_GeneralRegistered == "general" \in DOMAIN templates

\* a registry built from an external "general" and an invalid definition,
\* then given two more templates
C24_Witness ==
    /\ call.op = "add_template"
    /\ templates["general"].system_prompt = <<Text("from yaml"), Field("context")>>
    /\ "broken" \notin DOMAIN templates
    /\ "extra" \in DOMAIN templates
    /\ templates["checkin"] # DEFAULT_PROMPTS["checkin"]

\* the keys of intent_map
IntentMapKeys == {"general", "coaching", "onboarding", "goal_discovery", "goals",
                  "plan_explanation", "planning", "plan", "checkin", "check-in", "nudge"}

HasContextField(template) ==
    \E k \in DOMAIN template.system_prompt : template.system_prompt[k] = Field("context")

C22_MissingKept ==
    call.op = "render" =>
        LET system_prompt == templates[call.template_name].system_prompt
        IN  /\ answer.raised = ""
            /\ DOMAIN answer.text = DOMAIN system_prompt
            /\ \A k \in DOMAIN system_prompt :
                   LET part == system_prompt[k]
                   IN  answer.text[k] =
                           IF part.kind = "field"
                               THEN IF part.key \in DOMAIN call.context
                                        THEN <<call.context[part.key]>>
                                        ELSE <<"{", part.key, "}">>
                               ELSE <<part.key>>

\* {name} supplied and {context} not: the one replaced, the other kept
C22_Witness ==
    /\ call.op = "render"
    /\ call.template_name = "extra"
    /\ DOMAIN call.context = {"name"}
    /\ answer.text = << <<"Hello">>, <<"John">>, <<"{", "context", "}">> >>

\* ------------------------------------------------------------------------
\* Properties of the intent detector
\* ------------------------------------------------------------------------

\* C23: detect answers with an intent of maximal score, the score of an
\* intent being min(1.0, 2 * matches / len(patterns)) over the patterns found
\* in the lowered, stripped message; when no pattern of any intent is found
\* the answer is GENERAL with confidence exactly 0.5
C23_MaximalScore ==
    call.op = "detect" =>
        LET message_lower == strip(lower(call.message))
            found(k) == Cardinality({p \in DOMAIN PATTERNS[k].patterns :
                            Contains(message_lower, PATTERNS[k].patterns[p])})
            len(k) == Len(PATTERNS[k].patterns)
            score(k) == IF 2 * found(k) >= len(k) THEN <<1, 1>> ELSE <<2 * found(k), len(k)>>
            hit == {k \in DOMAIN PATTERNS : found(k) > 0}
        IN  IF hit = {}
                THEN answer = [intent |-> "general", confidence |-> <<1, 2>>]
                ELSE \E k \in hit :
                        /\ answer.intent = PATTERNS[k].intent
                        /\ answer.confidence[1] * score(k)[2] = score(k)[1] * answer.confidence[2]
                        /\ \A j \in hit : score(j)[1] * score(k)[2] <= score(k)[1] * score(j)[2]

\* four of the six goal_create patterns: the score 8/6 is capped at 1.0 and
\* beats the 2/10 of goal_discovery
C23_Witness ==
    /\ call.op = "detect"
    /\ call.message = <<"new goal", "add goal", "set goal", "create goal">>
    /\ answer = [intent |-> "goal_create", confidence |-> <<1, 1>>]

\* ------------------------------------------------------------------------
\* Properties of the context builder
\* ------------------------------------------------------------------------

\* what build leaves in the context for a category whose query worked
Populated(category, context, rows) ==
    CASE category = "income" ->
             rows.income # <<>> => context.monthly_income = Head(rows.income)
      [] category = "expenses" ->
             rows.expenses # <<>> => context.monthly_expenses = Head(rows.expenses)
      [] category = "goals" ->
             context.active_goals = rows.goals /\ context.total_goal_target # Unset
      [] category = "debts" ->
             context.debt_count = Len(rows.debts) /\ context.total_debt # Unset
      [] category = "savings" ->
             context.savings_count = Len(rows.savings) /\ context.total_savings # Unset
      [] category = "checkin" ->
             rows.checkin # <<>> => context.recent_checkin_mood = Head(rows.checkin)[1]
      [] category = "plan" ->
             (Truthy(context.monthly_income) /\ Truthy(context.monthly_expenses)) =>
                 context.plan_summary # <<>>

\* C21: build gets each category (income, expenses, goals, debts, savings,
\* recent check-in, plan summary) in isolation: a storage failure on one
\* never raises out of build and never keeps another category from being
\* populated
C21_IsolatedCategories ==
    call.op = "build" =>
        /\ answer.raised = ""
        /\ \A category \in Categories \ call.failing :
               Populated(category, answer.text, call.context)

\* ------------------------------------------------------------------------
\* Properties of the session history and the store
\* ------------------------------------------------------------------------

\* C33: in every reachable state every session in the store has a
\* non-empty history whose first entry is a system message and which holds
\* exactly one system message, whatever the order and interleaving of
\* start_session, send_message, stream_message, refresh_context,
\* clear_session and cleanup_stale_sessions
C33_OneLeadingSystem ==
    \A id \in stored :
        /\ heap[id].messages # <<>>
        /\ heap[id].messages[1].role = "system"
        /\ CountRole(heap[id].messages, "system") = 1

\* a session refreshed while a turn on it was waiting for the chain, the
\* reply then appended, next to a session started later
C33_Witness ==
    \E id \in stored, t \in Turns :
        /\ turns[t].pc = "done" /\ turns[t].sid = id
        /\ Len(heap[id].messages) = 3
        /\ heap[id].context_snapshot # build(heap[id].user_id)
        /\ heap[id].messages[1].content # get_system_prompt(heap[id].intent, <<heap[id].user_id, 0>>)
        /\ cleared # {}
        /\ Cardinality(stored) = 1

\* C35: cleanup_stale_sessions(max_age_hours) removes exactly the sessions
\* last updated before now - max_age_hours, leaves every other session and
\* every session object as it was, and returns the number removed; every
\* step that changes a session object sets its updated_at to now, so a
\* session changed within the threshold stays in the store
C35_CleanupExact ==
    [][ /\ ret'.op = "cleanup_stale_sessions" =>
              \A h \in 0..MaxAgeHours :
                  CleanupStaleSessions(h) =>
                      /\ stored \ stored' = {id \in stored : heap[id].updated_at < now - h}
                      /\ stored' \subseteq stored
                      /\ \A id \in stored : heap[id].updated_at >= now - h => id \in stored'
                      /\ ret'.count = Cardinality(stored \ stored')
                      /\ heap' = heap
        /\ \A id \in Ids : heap'[id] # heap[id] => heap'[id].updated_at = now
      ]_vars

\* at the same cleanup a session two hours old is removed and a session
\* updated one hour ago is kept
C35_Witness ==
    /\ ret = Returned("cleanup_stale_sessions", None, FALSE, 1)
    /\ \E id \in stored : heap[id].updated_at = now - MaxAgeHours
    /\ \E id \in Allocated \ (stored \cup cleared) :
           heap[id].updated_at < now - MaxAgeHours

\* what was handed to the caller, without a disclaimer at its end
WithoutDisclaimer(out) ==
    IF out # <<>> /\ out[Len(out)] = SAFETY_DISCLAIMER
        THEN SubSeq(out, 1, Len(out) - 1)
        ELSE out

\* C38: the assistant message stored in the history is the raw model output
\* without the disclaimer: for send_message the content of the provider's
\* response, for stream_message the fragments handed to the caller before
\* the disclaimer, joined in their order
C38_RawReplyStored ==
    \A t \in Turns :
        turns[t].pc = "done" =>
            LET message == heap[turns[t].sid].messages[turns[t].rpos]
                raw == WithoutDisclaimer(turns[t].out)
            IN  /\ message.role = "assistant"
                /\ message.content = raw
                /\ \A k \in DOMAIN message.content : message.content[k] # SAFETY_DISCLAIMER
                /\ turns[t].kind = "stream" =>
                       \A k \in DOMAIN raw : turns[t].events[k] = DataEvent(raw[k])

\* a sent reply and a streamed reply of two fragments, both handed out with
\* the disclaimer and stored without it
C38_Witness ==
    \E t1, t2 \in Turns :
        /\ turns[t1].pc = "done" /\ turns[t1].kind = "send"
        /\ turns[t1].out = <<"You should", "save", SAFETY_DISCLAIMER>>
        /\ heap[turns[t1].sid].messages[turns[t1].rpos].content = <<"You should", "save">>
        /\ turns[t2].pc = "done" /\ turns[t2].kind = "stream"
        /\ turns[t2].out = <<"sure", "You should", SAFETY_DISCLAIMER>>
        /\ heap[turns[t2].sid].messages[turns[t2].rpos].content = <<"sure", "You should">>

\* C34: get_recent_messages(limit), for a positive limit, returns the first
\* system message of the history (when it has one) followed by the last
\* `limit` messages that are no system messages, in the order of the
\* history: never more than limit + 1 messages, however long the history
C34_BoundedWindow ==
    call.op = "get_recent_messages" =>
        LET messages == call.message
            limit == call.limit
            window == answer.text
            systems == {k \in DOMAIN messages : messages[k].role = "system"}
            others == {k \in DOMAIN messages : messages[k].role # "system"}
            led == IF systems = {} THEN 0 ELSE 1
            kept == IF Cardinality(others) <= limit THEN Cardinality(others) ELSE limit
        IN  /\ Len(window) <= limit + 1
            /\ Len(window) = led + kept
            /\ systems # {} =>
                   \E k \in systems : window[1] = messages[k] /\ \A j \in systems : k <= j
            /\ \A r \in 1..kept :
                   \E k \in others :
                       /\ window[led + r] = messages[k]
                       /\ Cardinality({j \in others : j > k}) = kept - r

\* a history of five with two system messages, the first not in front:
\* the first system message leads, the last two of the others follow
C34_Witness ==
    /\ call.op = "get_recent_messages"
    /\ call.limit = 2
    /\ Len(call.message) = 5
    /\ call.message[1].role = "user" /\ call.message[2].role = "system"
    /\ call.message[3].role = "assistant" /\ call.message[4].role = "system"
    /\ call.message[5].role = "user"
    /\ answer.text = <<call.message[2], call.message[3], call.message[5]>>

\* ------------------------------------------------------------------------
\* Properties of the send_message endpoint
\* ------------------------------------------------------------------------

\* C31: the session_id in the response of POST /chat/message is the id of
\* the session the turn ran on, also when the request carried no id or an
\* unknown one and the session was created for it; a request that carries
\* the id of the last response runs on the session of that response
C31_ReturnedIdContinues ==
    /\ call.op = "response" => answer.session_id = turns[call.turn].sid
    /\ ( /\ call.op = "request"
         /\ call.turn > 1
         /\ turns[call.turn].pc # "idle"
         /\ answer.turn = call.turn - 1
         /\ answer.status = 200
         /\ call.session_id = answer.session_id )
       => turns[call.turn].sid = turns[answer.turn].sid

====
